---- MODULE Spec2Model ----
(***************************************************************************)
(* Model of the legal question answering engine of fer78mo/prueba1:        *)
(*   - the versioned ingestion pipeline (app/ingest/pipeline.py) over the  *)
(*     vector store adapter (app/vector/qdrant_store.py);                  *)
(*   - the solver cascade (app/pipeline/solver.py);                        *)
(*   - the batch runner (app/cli/run_batch.py): question files, the        *)
(*     anti-bias selector, the relaxed retry, the loop over the files;     *)
(*   - the law-name cache (app/retrieve/law_classifier.py).                *)
(* Each subsystem has its own specification over the shared variables.     *)
(***************************************************************************)
EXTENDS Integers, Sequences, FiniteSets, TLC

(***************************************************************************)
(* Bounds of the model.                                                    *)
(***************************************************************************)
\* threads of one process that are inside _solve_with_fallback, or inside
\* shortlist_laws
MaxCallers == 2
\* alias.txt has one of the contents 1..MaxAlias while the process runs
MaxAlias == 2
\* a question file has at most MaxLines lines
MaxLines == 4
\* _first_fallback_idx is given at most MaxPayloads payloads
MaxPayloads == 3
\* run_batch finds at most MaxFiles question files
MaxFiles == 3
\* number of laws of alias.txt; law ids are 1..NumLaws in the order in which
\* their ids sort as strings
NumLaws == 2
\* the wall clock, in seconds, runs from 1 to MaxClock
MaxClock == 2
\* a directory's content is one of 0..MaxContent; content 0 of a law directory
\* holds files but none that load_articles accepts, content 0 of the PDF
\* directory holds no PDF
MaxContent == 1
\* ingest_all is started at most MaxRuns times
MaxRuns == 2
\* gc_versions is called with keep in 0..MaxKeep
MaxKeep == 2

Laws == 1..NumLaws
Kinds == {"articulos", "pdf_fallback", "pdf_temas"}
\* law part of the name of the pdf_temas collection, which has none
NoLaw == 0
\* the alias of a base name that has none
NoCol == [kind |-> "none", ley |-> 0, ver |-> 0]
\* manifest value of a snapshot that was never saved
NoSnap == -1

\* base names f"articulos__{ley_id}", f"pdf_fallback__{ley_id}" and "pdf_temas"
Bases == [kind : {"articulos", "pdf_fallback"}, ley : Laws]
           \cup {[kind |-> "pdf_temas", ley |-> NoLaw]}

ArtBase(l) == [kind |-> "articulos", ley |-> l]
PdfLeyBase(l) == [kind |-> "pdf_fallback", ley |-> l]
PdfTemasBase == [kind |-> "pdf_temas", ley |-> NoLaw]

\* physical = f"{base_name}__{version_tag}"
Physical(b, v) == [kind |-> b.kind, ley |-> b.ley, ver |-> v]
BaseOf(c) == [kind |-> c.kind, ley |-> c.ley]

VARIABLES
  \* ---- vector store and corpus
  clock,        \* wall clock in seconds
  collections,  \* physical collections of the store
  points,       \* physical collection -> set of contents whose points it holds
  alias,        \* base name -> physical collection the alias resolves to
  dirContent,   \* law -> content of its article directory
  pdfContent,   \* content of the PDF directory
  manifest,     \* saved manifest: [art : law -> snapshot, pdf : snapshot]
  \* ---- one ingest_all run
  ipc,          \* position of the run
  run,          \* locals of the run
  runs,         \* number of runs started
  \* ---- one solve_question call
  cfg,          \* settings and detected references of the call
  spc,          \* position of the call in the cascade
  hint,         \* ley_id of hits[0] of the shortlist search, NoLey if none
  trace,        \* the strategies whose retrieval was invoked, with their outcome
  gen,          \* outcome of the generate call of the fallback
  result,       \* what the call returned or raised
  \* ---- one call of a pure function
  fin,          \* the function called and its arguments
  fout,         \* what it returned
  \* ---- the triggers of ingestion (API server and watcher)
  autoIngest,   \* AUTO_INGEST_ON_START
  runners,      \* thread -> what it is doing
  \* ---- one question of a batch (process_one)
  quest,        \* the parsed question file and the settings of the run
  bpc,          \* position in process_one / the selector
  pasada,       \* passes of the selector completed
  pres,         \* pasada_results, in insertion order
  votes,        \* vote_scores and confidence_scores, in insertion order
  calls,        \* solve_question invocations made by the selector
  sel,          \* what the selector returned
  rec,          \* the result record of process_one
  \* ---- one run of run_batch over the selected files
  lpc,          \* position of run_batch
  files,        \* number of files selected (after max_n)
  fidx,         \* index in files of the file the loop is at
  okc,          \* files resolved
  moved,        \* files counted as moved to _no_resueltas
  fails,        \* the list of {archivo, motivo}
  jsonl,        \* the files whose result is in lote_<ts>.jsonl
  fwhere,       \* file -> where it is now
  report,       \* what the failure report lists
  \* ---- concurrent calls of _solve_with_fallback in one process
  env,          \* os.environ: the four settings the retry overwrites
  consts,       \* module constants of solver.py and run_batch.py, set at import
  thr,          \* calling thread -> locals and position of its call
  \* ---- concurrent calls of shortlist_laws in one process
  cache,        \* _cache of law_classifier.py
  aliasFile,    \* content of alias.txt
  cthr,         \* calling thread -> locals and position of its call
  inits,        \* embed_texts(names) calls received by the embedder
  \* ---- the file watcher (cli/watch.py)
  watch         \* its clock, its Debounce, the events it received, its runs

storeVars == <<clock, collections, points, alias, dirContent, pdfContent, manifest>>
runVars == <<ipc, run, runs>>
ingestVars == <<storeVars, runVars>>
solverVars == <<cfg, spc, hint, trace, gen, result>>
funVars == <<fin, fout>>
serveVars == <<autoIngest, runners>>
batchVars == <<quest, bpc, pasada, pres, votes, calls, sel, rec>>
lotVars == <<lpc, files, fidx, okc, moved, fails, jsonl, fwhere, report>>
envVars == <<env, consts, thr>>
cacheVars == <<cache, aliasFile, cthr, inits>>
watchVars == <<watch>>
\* the subsystems after the batch question
extraVars == <<lotVars, envVars, cacheVars, watchVars>>

\* what the actions of one subsystem leave alone
nonIngestVars == <<solverVars, funVars, serveVars, batchVars, extraVars>>
nonSolverVars == <<ingestVars, funVars, serveVars, batchVars, extraVars>>
nonFunVars == <<ingestVars, solverVars, serveVars, batchVars, extraVars>>
nonServeVars == <<ingestVars, solverVars, funVars, batchVars, extraVars>>
nonBatchVars == <<ingestVars, solverVars, funVars, serveVars, extraVars>>
nonLotVars ==
  <<ingestVars, solverVars, funVars, serveVars, batchVars, envVars, cacheVars, watchVars>>
nonEnvVars ==
  <<ingestVars, solverVars, funVars, serveVars, batchVars, lotVars, cacheVars, watchVars>>
nonCacheVars ==
  <<ingestVars, solverVars, funVars, serveVars, batchVars, lotVars, envVars, watchVars>>
nonWatchVars ==
  <<ingestVars, solverVars, funVars, serveVars, batchVars, lotVars, envVars, cacheVars>>

vars == <<ingestVars, solverVars, funVars, serveVars, batchVars, extraVars>>

(***************************************************************************)
(* Corpus: snapshots and documents of the directories.                     *)
(***************************************************************************)
\* contents of the PDF directory: NoPdf, no PDF at all; TextPdf, a topic PDF and
\* a PDF of law PdfLaw, both with text; ScanPdf, the same two PDFs, the law's
\* one without any extractable text
NoPdf == 0
TextPdf == 1
ScanPdf == 2
PdfContents == {NoPdf, TextPdf, ScanPdf}
PdfLaw == 1

\* snapshot_dir of a law directory: the hashes of its .txt files (0 is the
\* empty snapshot {}, which no directory of the model has)
SnapshotDir(l) == dirContent[l] + 1
\* load_articles: the documents of the directory, none for content 0
ArticleDocs(l) == IF dirContent[l] = 0 THEN {} ELSE {dirContent[l]}

\* load_pdfs(...)["tema"] filtered by text, and load_pdfs(...)["ley"]
TemaDocs(c) == IF c = NoPdf THEN {} ELSE {c}
LeyPdfDocs(c) == IF c = NoPdf THEN {} ELSE {PdfLaw}
\* all_texts of _ingest_pdf_temas and _ingest_pdf_ley: the chunks of the
\* documents that have text
PdfTexts(b, c) == IF b.kind = "pdf_temas" \/ c = TextPdf THEN {c} ELSE {}

(***************************************************************************)
(* qdrant_store.py                                                         *)
(***************************************************************************)
\* ensure_versioned_collection: creates the physical collection unless it exists
EnsureVersionedCollection(cols, b, v) == cols \cup {Physical(b, v)}

\* sorted(...) of delete_old_versions compares the names as strings: within a
\* prefix by law id first, then by version tag
NameLess(c, d) == \/ c.ley < d.ley
                  \/ c.ley = d.ley /\ c.ver < d.ver

\* cols of delete_old_versions: c.startswith(base_name + "__")
WithPrefix(cols, pref) == {c \in cols : c.kind = pref}

\* extra = cols[:-keep]: all but the last keep names; cols[:-0] is empty
OldVersions(cols, pref, keep) ==
  IF keep = 0 THEN {}
  ELSE {c \in WithPrefix(cols, pref) :
          Cardinality({d \in WithPrefix(cols, pref) : NameLess(c, d)}) >= keep}

\* prefixes of gc_versions: c.split("__")[0] of every collection name
Prefixes(cols) == {c.kind : c \in cols}

\* what gc_versions(keep) asks the store to delete
GcExtra(cols, keep) == UNION {OldVersions(cols, pref, keep) : pref \in Prefixes(cols)}

\* the store drops the aliases of a deleted collection
DropAliases(al, deleted) == [b \in Bases |-> IF al[b] \in deleted THEN NoCol ELSE al[b]]

(***************************************************************************)
(* ingest_all and the per-unit ingestion of pipeline.py                    *)
(***************************************************************************)
\* _version_tag: time.strftime("v_%Y%m%d_%H%M%S"), the clock to the second
VersionTag == clock

RECURSIVE SeqOfLaws(_, _)
\* the laws of S from l upwards, in alias order
SeqOfLaws(S, l) ==
  IF l > NumLaws THEN <<>>
  ELSE (IF l \in S THEN <<l>> ELSE <<>>) \o SeqOfLaws(S, l + 1)

\* ChangedLeyes for a run that re-ingests every law in scope, whatever the
\* manifest says
ChangedLeyesIgnoringManifest(force, scope) ==
  SeqOfLaws(IF scope = {} THEN Laws ELSE Laws \cap scope, 1)

\* changed_leyes: laws whose snapshot differs from the manifest, or all if forced,
\* then restricted to scope["ley_ids"] when that is given
ChangedLeyes(force, scope) ==
  LET changed == {l \in Laws : force \/ manifest.art[l] # SnapshotDir(l)}
  IN  SeqOfLaws(IF scope = {} THEN changed ELSE changed \cap scope, 1)

\* pdf_changed
PdfChanged(force) == force \/ manifest.pdf # pdfContent

NoUnit == [kind |-> "none", ley |-> 0]
IdleRun == [version |-> 0, force |-> FALSE, includePdf |-> FALSE, pdfChanged |-> FALSE,
            todo |-> <<>>, pdfTodo |-> <<>>, pdfLoaded |-> FALSE,
            unit |-> NoUnit, snapArt |-> [l \in Laws |-> 0], snapPdf |-> NoSnap,
            failed |-> {}]

\* no solve_question call is in progress
NoLey == 0
NoResult == [kind |-> "none", strategy |-> "none", confianza |-> 0,
             tiene_cita |-> FALSE, span |-> "none", score |-> 0, ley |-> NoLey,
             err |-> "none"]
NoRef == [num |-> FALSE, ley |-> NoLey]
SolverIdle ==
  /\ cfg = [strict |-> FALSE, lawGuard |-> FALSE, mode |-> "correcta",
            refOpt |-> NoRef, refQ |-> NoRef]
  /\ spc = "idle"
  /\ hint = NoLey
  /\ trace = <<>>
  /\ gen = "none"
  /\ result = NoResult

IngestStart ==
  /\ clock = 1
  /\ collections = {}
  /\ points = [c \in {} |-> {}]
  /\ alias = [b \in Bases |-> NoCol]
  /\ dirContent = [l \in Laws |-> 1]
  /\ pdfContent = TextPdf
  /\ manifest = [art |-> [l \in Laws |-> 0], pdf |-> NoSnap]
  /\ ipc = "idle"
  /\ run = IdleRun
  /\ runs = 0

\* no pure function is being called
NoCall == [fn |-> "none"]
NotReturned == [done |-> FALSE]
FunIdle == fin = NoCall /\ fout = NotReturned

\* the threads that call reindex_main: the auto-ingest thread of the server,
\* the workers that serve /reindex requests, the event thread of the watcher
MaxWorkers == 2
Workers == {[kind |-> "reindex", id |-> i] : i \in 1..MaxWorkers}
AutoThread == [kind |-> "auto", id |-> 0]
WatchThread == [kind |-> "watch", id |-> 0]
Runners == {AutoThread, WatchThread} \cup Workers
\* a thread that is not inside reindex_main
Resting == [st |-> "idle", scope |-> {}]
\* the server and the watcher have not started
ServeIdle ==
  /\ autoIngest = FALSE
  /\ runners = [r \in Runners |-> Resting]

\* no question is being processed
NoQuestion == [opciones |-> {}, gold |-> "none", passes |-> 0,
               fallbackRetrieval |-> FALSE, mode |-> "correcta"]
\* an info dict: tiene_cita, fuente.tipo == "txt", confianza (hundredths), and
\* the keys the selector adds (confianza_robusta as a fraction, den 0 when the
\* key is absent; anti_bias_votes, empty when the key is absent)
Absent == [num |-> 0, den |-> 0]
NoInfo == [kind |-> "none", cita |-> FALSE, txt |-> FALSE, conf |-> 0,
           robusta |-> Absent, anti_bias_votes |-> <<>>]
NoSel == [winner |-> "none", info |-> NoInfo]
NoRec == [opcion_elegida |-> "none", confianza |-> 0, confianza_robusta |-> Absent,
          verificacion_ok |-> FALSE, anti_bias_votes |-> <<>>]
BatchIdle ==
  /\ quest = NoQuestion
  /\ bpc = "idle"
  /\ pasada = 0
  /\ pres = <<>>
  /\ votes = <<>>
  /\ calls = 0
  /\ sel = NoSel
  /\ rec = NoRec

\* run_batch has not started
LotIdle ==
  /\ lpc = "idle"
  /\ files = 0
  /\ fidx = 0
  /\ okc = 0
  /\ moved = 0
  /\ fails = <<>>
  /\ jsonl = {}
  /\ fwhere = <<>>
  /\ report = <<>>

\* the defaults of the four settings: os.environ.get(name, default)
DefaultEnv == [MINLEN_SHORT |-> 60, MINLEN_LONG |-> 90, STRICT_LAW_GUARD |-> FALSE,
               STRICT_CITATION |-> FALSE]
\* no _solve_with_fallback call is observed
EnvIdle ==
  /\ env = DefaultEnv
  /\ consts = [settings |-> DefaultEnv, FALLBACK_RETRIEVAL |-> TRUE]
  /\ thr = <<>>

\* no shortlist_laws call is observed
NoCache == [alias |-> 0, law_vecs |-> 0, law_tokens |-> 0]
CacheIdle ==
  /\ cache = NoCache
  /\ aliasFile = 1
  /\ cthr = <<>>
  /\ inits = 0

\* the watcher is not running
NoWatch == [pc |-> "off", now |-> 0, ts |-> 0, evs |-> <<>>, handled |-> 0, starts |-> {}]
WatchIdle == watch = NoWatch

ExtraIdle == LotIdle /\ EnvIdle /\ CacheIdle /\ WatchIdle

OthersIdle == ServeIdle /\ BatchIdle /\ ExtraIdle

InitIngest == IngestStart /\ SolverIdle /\ FunIdle /\ OthersIdle

\* a second of wall clock passes between two runs
Tick ==
  /\ ipc = "idle"
  /\ clock < MaxClock
  /\ clock' = clock + 1
  /\ UNCHANGED <<nonIngestVars, collections, points, alias, dirContent, pdfContent, manifest,
                 runVars>>

\* a file of a law directory is edited
EditLaw(l, c) ==
  /\ ipc = "idle"
  /\ c # dirContent[l]
  /\ dirContent' = [dirContent EXCEPT ![l] = c]
  /\ UNCHANGED <<nonIngestVars, clock, collections, points, alias, pdfContent, manifest,
                 runVars>>

\* the PDF directory is edited
EditPdfs(c) ==
  /\ ipc = "idle"
  /\ c # pdfContent
  /\ pdfContent' = c
  /\ UNCHANGED <<nonIngestVars, clock, collections, points, alias, dirContent, manifest,
                 runVars>>

\* ingest_all up to the first loop: version tag, snapshots, changed units
StartRun(force, scope, includePdf) ==
  /\ ipc = "idle"
  /\ runs < MaxRuns
  /\ runs' = runs + 1
  /\ run' = [IdleRun EXCEPT !.version = VersionTag,
                            !.force = force,
                            !.includePdf = includePdf,
                            !.pdfChanged = PdfChanged(force),
                            !.todo = ChangedLeyes(force, scope),
                            !.snapArt = [l \in Laws |-> SnapshotDir(l)],
                            !.snapPdf = pdfContent]
  /\ ipc' = "next"
  /\ UNCHANGED <<nonIngestVars, storeVars>>

\* for ley_id in changed_leyes: _ingest_ley(...)
NextLey ==
  /\ ipc = "next"
  /\ run.todo # <<>>
  /\ run' = [run EXCEPT !.unit = ArtBase(Head(run.todo)), !.todo = Tail(run.todo)]
  /\ ipc' = "load"
  /\ UNCHANGED <<nonIngestVars, storeVars, runs>>

\* _ingest_ley: docs = load_articles(...); no documents returns False, which
\* ingest_all does not look at (run.failed keeps the laws it was returned for)
LoadArticles ==
  /\ ipc = "load"
  /\ ipc' = IF ArticleDocs(run.unit.ley) = {} THEN "next" ELSE "ensure"
  /\ run' = IF ArticleDocs(run.unit.ley) = {}
            THEN [run EXCEPT !.failed = @ \cup {run.unit.ley}] ELSE run
  /\ UNCHANGED <<nonIngestVars, storeVars, runs>>

\* if include_pdf_temas and pdf_changed: load_pdfs, then pdf_temas and the
\* laws' PDF sets, in that order
LoadPdfs ==
  /\ ipc = "next"
  /\ run.todo = <<>>
  /\ ~run.pdfLoaded
  /\ run.includePdf /\ run.pdfChanged
  /\ run' = [run EXCEPT
       !.pdfLoaded = TRUE,
       !.pdfTodo = (IF TemaDocs(pdfContent) # {} THEN <<PdfTemasBase>> ELSE <<>>)
                   \o [i \in 1..Len(SeqOfLaws(LeyPdfDocs(pdfContent), 1)) |->
                         PdfLeyBase(SeqOfLaws(LeyPdfDocs(pdfContent), 1)[i])]]
  /\ ipc' = "next"
  /\ UNCHANGED <<nonIngestVars, storeVars, runs>>

\* _ingest_pdf_temas(...) and, for each law with PDFs, _ingest_pdf_ley(...)
NextPdf ==
  /\ ipc = "next"
  /\ run.todo = <<>>
  /\ run.pdfTodo # <<>>
  /\ run' = [run EXCEPT !.unit = Head(run.pdfTodo), !.pdfTodo = Tail(run.pdfTodo)]
  /\ ipc' = "ensure"
  /\ UNCHANGED <<nonIngestVars, storeVars, runs>>

\* the texts the current unit embeds and upserts
UnitTexts ==
  IF run.unit.kind = "articulos" THEN ArticleDocs(run.unit.ley)
  ELSE PdfTexts(run.unit, pdfContent)

\* physical = ensure_versioned_collection(base, version, dim); a PDF unit
\* without texts goes straight to switch_alias
Ensure ==
  /\ ipc = "ensure"
  /\ collections' = EnsureVersionedCollection(collections, run.unit, run.version)
  /\ points' = [c \in collections' |-> IF c \in collections THEN points[c] ELSE {}]
  /\ ipc' = IF UnitTexts = {} THEN "sw_sdk" ELSE "embed"
  /\ UNCHANGED <<nonIngestVars, clock, alias, dirContent, pdfContent, manifest, run, runs>>

\* vectors = embed_texts(texts)
Embed ==
  /\ ipc = "embed"
  /\ ipc' = "upsert"
  /\ UNCHANGED <<nonIngestVars, storeVars, run, runs>>

\* upsert_points(physical, vectors, payloads, ids)
Upsert ==
  /\ ipc = "upsert"
  /\ LET physical == Physical(run.unit, run.version)
     IN  points' = [points EXCEPT ![physical] = @ \cup UnitTexts]
  /\ ipc' = "sw_sdk"
  /\ UNCHANGED <<nonIngestVars, clock, collections, alias, dirContent, pdfContent, manifest,
                 run, runs>>

\* the alias of the current unit now resolves to its new physical collection
AliasSet == alias' = [alias EXCEPT ![run.unit] = Physical(run.unit, run.version)]

\* switch_alias, SDK: update_collection_aliases([delete, create]) succeeds; the
\* store applies both operations at once, and delete needs the alias to exist
SwitchSdkOk ==
  /\ ipc = "sw_sdk"
  /\ alias[run.unit] # NoCol
  /\ AliasSet
  /\ ipc' = "next"
  /\ UNCHANGED <<nonIngestVars, clock, collections, points, dirContent, pdfContent, manifest,
                 run, runs>>

\* switch_alias, SDK: the call raises (except Exception), nothing applied
SwitchSdkFails ==
  /\ ipc = "sw_sdk"
  /\ ipc' = "sw_sdk_retry"
  /\ UNCHANGED <<nonIngestVars, storeVars, run, runs>>

\* switch_alias, SDK: the client has no update_collection_aliases
\* (except AttributeError: pass)
SwitchSdkMissing ==
  /\ ipc = "sw_sdk"
  /\ ipc' = "sw_rest_delete"
  /\ UNCHANGED <<nonIngestVars, storeVars, run, runs>>

\* switch_alias, SDK retry with the create operation alone, succeeds
SwitchRetryOk ==
  /\ ipc = "sw_sdk_retry"
  /\ AliasSet
  /\ ipc' = "next"
  /\ UNCHANGED <<nonIngestVars, clock, collections, points, dirContent, pdfContent, manifest,
                 run, runs>>

\* switch_alias, SDK retry raises too (except Exception: pass)
SwitchRetryFails ==
  /\ ipc = "sw_sdk_retry"
  /\ ipc' = "sw_rest_delete"
  /\ UNCHANGED <<nonIngestVars, storeVars, run, runs>>

\* switch_alias, REST: POST delete_alias succeeds
RestDeleteOk ==
  /\ ipc = "sw_rest_delete"
  /\ alias[run.unit] # NoCol
  /\ alias' = [alias EXCEPT ![run.unit] = NoCol]
  /\ ipc' = "sw_rest_create"
  /\ UNCHANGED <<nonIngestVars, clock, collections, points, dirContent, pdfContent, manifest,
                 run, runs>>

\* switch_alias, REST: POST delete_alias fails and is ignored
RestDeleteFails ==
  /\ ipc = "sw_rest_delete"
  /\ ipc' = "sw_rest_create"
  /\ UNCHANGED <<nonIngestVars, storeVars, run, runs>>

\* switch_alias, REST: POST create_alias succeeds; the unit is ingested
RestCreateOk ==
  /\ ipc = "sw_rest_create"
  /\ AliasSet
  /\ ipc' = "next"
  /\ UNCHANGED <<nonIngestVars, clock, collections, points, dirContent, pdfContent, manifest,
                 run, runs>>

\* a call of the current unit raises: load_articles, collection_exists /
\* recreate_collection, embed_texts, upsert, or the REST create_alias
\* (raise_for_status); nothing in ingest_all catches it, so the run ends
\* without saving the manifest
RaisingSteps == {"load", "ensure", "embed", "upsert", "sw_rest_create"}

UnitRaises ==
  /\ ipc \in RaisingSteps
  /\ ipc' = "idle"
  /\ run' = IdleRun
  /\ UNCHANGED <<nonIngestVars, storeVars, runs>>

\* save_manifest(manifest_out): the snapshots taken at the start, of every law
SaveManifest ==
  /\ ipc = "next"
  /\ run.todo = <<>> /\ run.pdfTodo = <<>>
  /\ run.pdfLoaded \/ ~(run.includePdf /\ run.pdfChanged)
  /\ manifest' = [art |-> run.snapArt, pdf |-> run.snapPdf]
  /\ ipc' = "idle"
  /\ run' = IdleRun
  /\ UNCHANGED <<nonIngestVars, clock, collections, points, alias, dirContent, pdfContent,
                 runs>>

\* gc_versions(keep): delete_old_versions for every prefix; a delete_collection
\* that raises is skipped (failed is the set of those)
GcVersions(keep, failed) ==
  /\ ipc = "idle"
  /\ failed \subseteq GcExtra(collections, keep)
  /\ LET deleted == GcExtra(collections, keep) \ failed
     IN  /\ collections' = collections \ deleted
         /\ points' = [c \in collections' |-> points[c]]
         /\ alias' = DropAliases(alias, deleted)
  /\ UNCHANGED <<nonIngestVars, clock, dirContent, pdfContent, manifest, runVars>>

Scopes == SUBSET Laws

IngestNext ==
  \/ Tick
  \/ \E l \in Laws, c \in 0..MaxContent : EditLaw(l, c)
  \/ \E c \in PdfContents : EditPdfs(c)
  \/ \E force \in BOOLEAN, scope \in Scopes, includePdf \in BOOLEAN :
        StartRun(force, scope, includePdf)
  \/ NextLey
  \/ LoadArticles
  \/ LoadPdfs
  \/ NextPdf
  \/ Ensure
  \/ Embed
  \/ Upsert
  \/ SwitchSdkOk
  \/ SwitchSdkFails
  \/ SwitchSdkMissing
  \/ SwitchRetryOk
  \/ SwitchRetryFails
  \/ RestDeleteOk
  \/ RestDeleteFails
  \/ RestCreateOk
  \/ UnitRaises
  \/ SaveManifest

\* the ingestion pipeline without garbage collection
SpecIngest == InitIngest /\ [][IngestNext]_vars

Init == InitIngest

Next ==
  \/ IngestNext
  \/ \E keep \in 0..MaxKeep : \E failed \in SUBSET GcExtra(collections, keep) : GcVersions(keep, failed)

\* the ingestion pipeline with garbage collection
Spec == Init /\ [][Next]_vars

(***************************************************************************)
(* Claims about the alias and the versions (C1..C4).                       *)
(***************************************************************************)
\* the collections some alias resolves to
AliasTargets == {alias[b] : b \in Bases} \ {NoCol}

\* the n most recent physical collections of base name b among cols
MostRecent(cols, b, n) ==
  {c \in cols : /\ BaseOf(c) = b
                /\ Cardinality({d \in cols : BaseOf(d) = b /\ d.ver > c.ver}) < n}

\* C1: once the alias of a base name exists, every step, each single store call
\* of switch_alias included, leaves it resolving to one existing physical
\* collection.
C1_AliasAlwaysResolves ==
  [][\A b \in Bases :
       alias[b] # NoCol => (alias'[b] # NoCol /\ alias'[b] \in collections')]_vars

\* C2: an alias is only ever switched to a collection that already holds all the
\* points of the unit, and no upsert writes into the collection its alias
\* currently points to.
C2_NoPartialIngestionVisible ==
  [][/\ \A b \in Bases :
          (alias'[b] # alias[b] /\ alias'[b] # NoCol)
             => (b = run.unit /\ UnitTexts \subseteq points[alias'[b]])
     /\ Upsert => alias[run.unit] # Physical(run.unit, run.version)]_vars

\* C3: no step deletes a physical collection that an alias references.
C3_GcNeverDeletesAliased ==
  [][\A c \in collections \ collections' : c \notin AliasTargets]_vars

\* C4: gc_versions(keep = N), N >= 1, deletes no collection that is among the N
\* most recent ones of its own base name.
C4_GcKeepsNewestPerAlias ==
  [][\A keep \in 1..MaxKeep :
       (\E failed \in SUBSET GcExtra(collections, keep) : GcVersions(keep, failed))
         => \A c \in collections \ collections' :
               c \notin MostRecent(collections, BaseOf(c), keep)]_vars

(***************************************************************************)
(* The solver cascade of solver.py.  Scores and confidences are in         *)
(* hundredths.                                                             *)
(***************************************************************************)
\* a retrieval returns at most MaxHits hits
MaxHits == 2
\* law ids a question, an option or a payload of the law collections can name
QLaws == {1, 2}
\* payload ley_id of the chunks of pdf_temas: "desconocida"
Desconocida == 9
\* scores the cross-encoder gives a (query, candidate) pair: float(scores[i])
Scores == {30, 130}
\* what find_best_quote, find_span_exact and option_overlap_support give for a
\* candidate text: no quote; a quote with or without an exact span, which the
\* option's words do or do not overlap
Verifs == {"noquote", "span_ov", "span_noov", "nospan_ov", "nospan_noov"}

\* the hits a collection of the laws in leys can return: those whose payload
\* text _read_payload_text cannot read, and those it can
Candidates(leys) ==
  [readable : {FALSE}, ley : leys, score : {0}, verif : {"noquote"}]
    \cup [readable : {TRUE}, ley : leys, score : Scores, verif : Verifs]
HitLists(leys) == UNION {[1..n -> Candidates(leys)] : n \in 0..MaxHits}

HasQuote(c) == c.verif # "noquote"
HasSpan(c) == c.verif \in {"span_ov", "span_noov"}
OkOverlap(c) == c.verif \in {"span_ov", "nospan_ov"}

Max(a, b) == IF a >= b THEN a ELSE b
Min(a, b) == IF a <= b THEN a ELSE b

RECURSIVE Readable(_)
\* texts / payloads of _pick_and_quote: the hits whose text is not empty
Readable(hits) ==
  IF hits = <<>> THEN <<>>
  ELSE (IF Head(hits).readable THEN <<Head(hits)>> ELSE <<>>) \o Readable(Tail(hits))

RECURSIVE InsertByScore(_, _, _)
\* idx inserted into order, which is sorted by score descending, after the
\* indices of equal score (sorted(..., reverse=True) is stable)
InsertByScore(order, idx, ps) ==
  IF order = <<>> THEN <<idx>>
  ELSE IF ps[Head(order)].score >= ps[idx].score
       THEN <<Head(order)>> \o InsertByScore(Tail(order), idx, ps)
       ELSE <<idx>> \o order

RECURSIVE RerankUpTo(_, _)
RerankUpTo(ps, n) ==
  IF n = 0 THEN <<>> ELSE InsertByScore(RerankUpTo(ps, n - 1), n, ps)

\* rerank: the indices of the candidates by score, best first
Rerank(ps) == RerankUpTo(ps, Len(ps))

\* _guard_match
GuardMatch(expected, payloadLey) ==
  IF ~cfg.lawGuard THEN TRUE
  ELSE IF expected = NoLey THEN TRUE
  ELSE payloadLey = expected

RECURSIVE FirstPassing(_, _, _)
FirstPassing(order, ps, expected) ==
  IF order = <<>> THEN 0
  ELSE IF GuardMatch(expected, ps[Head(order)].ley) THEN Head(order)
       ELSE FirstPassing(Tail(order), ps, expected)

\* a variant of _first_fallback_idx without the final "return order[0][0]"
FirstFallbackIdxNoDefault(order, ps, expected) ==
  IF ~cfg.lawGuard \/ expected = NoLey THEN order[1]
  ELSE FirstPassing(order, ps, expected)

\* _first_fallback_idx
FirstFallbackIdx(order, ps, expected) ==
  IF ~cfg.lawGuard \/ expected = NoLey THEN order[1]
  ELSE IF FirstPassing(order, ps, expected) # 0 THEN FirstPassing(order, ps, expected)
       ELSE order[1]

\* the loops of _pick_and_quote look at order[:6] (correcta) and order[:8]
TopCorrecta == 6
TopIncorrecta == 8

\* _pick_and_quote returns a quote with its exact span for this candidate
Verified(c, mode) ==
  IF mode # "incorrecta" THEN HasQuote(c) /\ HasSpan(c) /\ OkOverlap(c)
  ELSE HasQuote(c) /\ HasSpan(c)

\* a variant of the span-less return that ignores STRICT
UnverifiedIgnoringStrict(c, mode) ==
  IF mode # "incorrecta" THEN HasQuote(c) /\ OkOverlap(c) ELSE HasQuote(c)

\* _pick_and_quote returns a quote with an empty span for this candidate:
\* "if not STRICT and ok_overlap" / "if not STRICT"
Unverified(c, mode) ==
  IF mode # "incorrecta" THEN HasQuote(c) /\ ~cfg.strict /\ OkOverlap(c)
  ELSE HasQuote(c) /\ ~cfg.strict

RECURSIVE FirstQuoted(_, _, _)
\* the first index of order that passes the guard and gives a quote, 0 if none
FirstQuoted(order, ps, expected) ==
  IF order = <<>> THEN 0
  ELSE IF /\ GuardMatch(expected, ps[Head(order)].ley)
          /\ (Verified(ps[Head(order)], cfg.mode) \/ Unverified(ps[Head(order)], cfg.mode))
       THEN Head(order)
       ELSE FirstQuoted(Tail(order), ps, expected)

\* _pick_and_quote: (quote, payload, score, span)
PickAndQuote(hits, expected) ==
  LET ps == Readable(hits)
      order == Rerank(ps)
      top == SubSeq(order, 1, Min(Len(order),
                 IF cfg.mode # "incorrecta" THEN TopCorrecta ELSE TopIncorrecta))
      idx == FirstQuoted(top, ps, expected)
  IN  IF ps = <<>>
      THEN [quote |-> FALSE, ley |-> NoLey, s |-> 0, span |-> FALSE]
      ELSE IF idx # 0
      THEN [quote |-> TRUE, ley |-> ps[idx].ley, s |-> ps[idx].score,
            span |-> Verified(ps[idx], cfg.mode)]
      ELSE [quote |-> FALSE, ley |-> ps[FirstFallbackIdx(order, ps, expected)].ley,
            s |-> ps[order[1]].score, span |-> FALSE]

\* the strategies of solve_question, in the order of the code
Strategies == <<"opt_ref", "q_ref", "shortlist", "pdf_ley", "pdf_temas">>
StrategyNames == {Strategies[i] : i \in 1..Len(Strategies)}
\* position of a strategy, or of the fallback, in the cascade
Rank(k) == IF k = "fallback" THEN Len(Strategies) + 1
           ELSE CHOOSE i \in 1..Len(Strategies) : Strategies[i] = k
\* where the cascade goes on after strategy k
NextPos(k) == IF Rank(k) = Len(Strategies) THEN "fallback" ELSE Strategies[Rank(k) + 1]

\* expected_ley_id = ref_opt.get("ley_id") or ref_q.get("ley_id")
ExpectedLey == IF cfg.refOpt.ley # NoLey THEN cfg.refOpt.ley ELSE cfg.refQ.ley
\* ley_for_ref = ref_opt.get("ley_id") or expected_ley_id
LeyForRef == IF cfg.refOpt.ley # NoLey THEN cfg.refOpt.ley ELSE ExpectedLey
\* ley_id_hint = expected_ley_id or (hits[0]["payload"].get("ley_id") if hits else None)
LeyIdHint == IF ExpectedLey # NoLey THEN ExpectedLey ELSE hint

\* the condition under which the code runs strategy k
Applies(k) ==
  CASE k = "opt_ref"   -> cfg.refOpt.num /\ (cfg.refOpt.ley # NoLey \/ ExpectedLey # NoLey)
    [] k = "q_ref"     -> cfg.refQ.ley # NoLey /\ cfg.refQ.num
    [] k = "shortlist" -> TRUE
    [] k = "pdf_ley"   -> LeyIdHint # NoLey
    [] k = "pdf_temas" -> TRUE

\* the expected law that strategy k passes to _pick_and_quote
GuardLey(k) ==
  CASE k = "opt_ref" -> LeyForRef
    [] k = "q_ref"   -> cfg.refQ.ley
    [] OTHER         -> ExpectedLey

\* payload ley_id of the hits of the collections that strategy k searches:
\* articulos__{ley} and pdf_fallback__{ley} hold the points of that law, the
\* shortlist holds any law, pdf_temas holds "desconocida"
HitLaws(k) ==
  CASE k = "opt_ref"   -> {LeyForRef}
    [] k = "q_ref"     -> {cfg.refQ.ley}
    [] k = "shortlist" -> QLaws
    [] k = "pdf_ley"   -> {LeyIdHint}
    [] k = "pdf_temas" -> {Desconocida}

\* hits[:12] of the shortlist search, pdf_hits[:8] of the PDF searches
HitsCap(k) == CASE k = "shortlist" -> 12 [] k \in {"pdf_ley", "pdf_temas"} -> 8
                [] OTHER -> MaxHits
Capped(k, hits) == SubSeq(hits, 1, Min(Len(hits), HitsCap(k)))

\* the confidence floor of strategy k: max(0.84, s), max(0.82, s), ...
Floor(k) ==
  CASE k = "opt_ref"   -> 84
    [] k = "q_ref"     -> 82
    [] k = "shortlist" -> 72
    [] k = "pdf_ley"   -> 62
    [] k = "pdf_temas" -> 55

\* a variant of the confidence that reports the floor alone
ConfianzaFloorOnly(k, s) == Floor(k)

\* "confianza": max(floor, s)
Confianza(k, s) == Max(Floor(k), s)
\* "confianza": 0.4 of the answer without a quote
FallbackConfianza == 40

\* "ley_id" of the result of strategy k
ResultLey(k, pick) ==
  CASE k = "opt_ref" -> LeyForRef
    [] k = "pdf_ley" -> LeyIdHint
    [] OTHER         -> pick.ley

\* the info dict a strategy returns with its quote
Grounded(k, pick) ==
  [kind |-> "ok", strategy |-> k, confianza |-> Confianza(k, pick.s),
   tiene_cita |-> TRUE, span |-> IF pick.span THEN "range" ELSE "empty",
   score |-> pick.s, ley |-> ResultLey(k, pick), err |-> "none"]

\* the info dict of the answer without a quote
Ungrounded ==
  [kind |-> "ok", strategy |-> "fallback", confianza |-> FallbackConfianza,
   tiene_cita |-> FALSE, span |-> "none", score |-> 0, ley |-> NoLey, err |-> "none"]

\* raise ValueError(err), or an exception of a collaborator that propagates
Raised(err) == [NoResult EXCEPT !.kind = "error", !.err = err]

\* a variant of the strategy block that goes on to the next strategy after it
\* found a quote
StrategyOutcomeFallsThrough(k, hits) ==
  LET pick == PickAndQuote(Capped(k, hits), GuardLey(k))
  IN  IF hits = <<>>
      THEN [spc |-> NextPos(k), result |-> NoResult, outcome |-> "no_hits"]
      ELSE IF pick.quote
      THEN [spc |-> NextPos(k), result |-> Grounded(k, pick), outcome |-> "quote"]
      ELSE IF cfg.strict
      THEN [spc |-> "raised", result |-> Raised("cita_no_encontrada"),
            outcome |-> "no_quote"]
      ELSE [spc |-> NextPos(k), result |-> NoResult, outcome |-> "no_quote"]

\* a variant of the strategy block without "if STRICT: raise"
StrategyOutcomeNoStrictRaise(k, hits) ==
  LET pick == PickAndQuote(Capped(k, hits), GuardLey(k))
  IN  IF hits = <<>>
      THEN [spc |-> NextPos(k), result |-> NoResult, outcome |-> "no_hits"]
      ELSE IF pick.quote
      THEN [spc |-> "returned", result |-> Grounded(k, pick), outcome |-> "quote"]
      ELSE [spc |-> NextPos(k), result |-> NoResult, outcome |-> "no_quote"]

\* one strategy block of solve_question applied to the hits of its search:
\*   if hits: pick and quote; if quote: return ...; if STRICT: raise
StrategyOutcome(k, hits) ==
  LET pick == PickAndQuote(Capped(k, hits), GuardLey(k))
  IN  IF hits = <<>>
      THEN [spc |-> NextPos(k), result |-> NoResult, outcome |-> "no_hits"]
      ELSE IF pick.quote
      THEN [spc |-> "returned", result |-> Grounded(k, pick), outcome |-> "quote"]
      ELSE IF cfg.strict
      THEN [spc |-> "raised", result |-> Raised("cita_no_encontrada"),
            outcome |-> "no_quote"]
      ELSE [spc |-> NextPos(k), result |-> NoResult, outcome |-> "no_quote"]

\* the references _detect_reference can find in a text
Refs == [num : BOOLEAN, ley : {NoLey} \cup QLaws]

SolveStart ==
  /\ cfg \in [strict : BOOLEAN, lawGuard : BOOLEAN, mode : {"correcta", "incorrecta"},
              refOpt : Refs, refQ : Refs]
  /\ spc = "opt_ref"
  /\ hint = NoLey
  /\ trace = <<>>
  /\ gen = "none"
  /\ result = NoResult

InitSolve == IngestStart /\ SolveStart /\ FunIdle /\ OthersIdle

\* the condition of strategy k is false: the block is skipped
Skip(k) ==
  /\ spc = k
  /\ ~Applies(k)
  /\ spc' = NextPos(k)
  /\ UNCHANGED <<nonSolverVars, cfg, hint, trace, gen, result>>

\* strategy k: its search returns hits (none also when the store call fails)
\* and the block handles them
Strategy(k, hits) ==
  /\ spc = k
  /\ Applies(k)
  /\ LET out == StrategyOutcome(k, hits)
     IN  /\ spc' = out.spc
         /\ result' = out.result
         /\ trace' = Append(trace, [strategy |-> k, outcome |-> out.outcome])
  /\ hint' = IF k = "shortlist" /\ hits # <<>> THEN hits[1].ley ELSE hint
  /\ UNCHANGED <<nonSolverVars, cfg, gen>>

\* strategy k: the search returned hits with text and rerank raises; nothing
\* in _pick_and_quote or solve_question catches it
RerankRaises(k) ==
  /\ spc = k
  /\ Applies(k)
  /\ spc' = "raised"
  /\ result' = Raised("rerank_error")
  /\ trace' = Append(trace, [strategy |-> k, outcome |-> "rerank_error"])
  /\ UNCHANGED <<nonSolverVars, cfg, hint, gen>>

\* shortlist_laws raises (its embed_texts call is outside every try)
ShortlistRaises ==
  /\ spc = "shortlist"
  /\ spc' = "raised"
  /\ result' = Raised("embedding_error")
  /\ UNCHANGED <<nonSolverVars, cfg, hint, trace, gen>>

\* the strategies whose search function embeds the question before it queries
\* the store: search_txt_in_laws, search_pdf_ley, search_pdf_temas
EmbeddingSearches == {"shortlist", "pdf_ley", "pdf_temas"}

\* strategy k: embed_texts raises inside the search function, before its own
\* try; the "except Exception" of solve_question around the search sets
\* hits = [] and the cascade goes on
SearchEmbedFails(k) ==
  /\ spc = k
  /\ k \in EmbeddingSearches
  /\ Applies(k)
  /\ spc' = NextPos(k)
  /\ trace' = Append(trace, [strategy |-> k, outcome |-> "embed_error"])
  /\ UNCHANGED <<nonSolverVars, cfg, hint, gen, result>>

\* a variant of step 5 that returns the answer whatever generate gave
FallbackOutcomeAlwaysReturns(g) == [spc |-> "returned", result |-> Ungrounded]

\* what step 5 does with the outcome g of generate
FallbackOutcome(g) ==
  IF g = "ok" THEN [spc |-> "returned", result |-> Ungrounded]
  ELSE [spc |-> "raised", result |-> Raised("sin_evidencia")]

\* step 5, not STRICT: generate returns a text, returns "" or raises
Fallback(g) ==
  /\ spc = "fallback"
  /\ ~cfg.strict
  /\ gen' = g
  /\ spc' = FallbackOutcome(g).spc
  /\ result' = FallbackOutcome(g).result
  /\ UNCHANGED <<nonSolverVars, cfg, hint, trace>>

\* step 5, STRICT: raise ValueError("sin_evidencia")
FallbackStrict ==
  /\ spc = "fallback"
  /\ cfg.strict
  /\ spc' = "raised"
  /\ result' = Raised("sin_evidencia")
  /\ UNCHANGED <<nonSolverVars, cfg, hint, trace, gen>>

SolveNext ==
  \/ \E k \in StrategyNames : Skip(k)
  \/ \E k \in StrategyNames : \E hits \in HitLists(HitLaws(k)) : Strategy(k, hits)
  \/ \E k \in StrategyNames : RerankRaises(k)
  \/ ShortlistRaises
  \/ \E k \in StrategyNames : SearchEmbedFails(k)
  \/ \E g \in {"ok", "empty", "raise"} : Fallback(g)
  \/ FallbackStrict

\* one call of solve_question, for every setting and every pair of references
SpecSolve == InitSolve /\ [][SolveNext]_vars

(***************************************************************************)
(* Claims C5..C10: the cascade of solve_question.                          *)
(***************************************************************************)
Ended == spc \in {"returned", "raised"}

\* C5: the strategies run strictly in the order option reference, question
\* reference, shortlist, law PDF, topic PDF, fallback; a quote ends the
\* cascade, so no retrieval follows a quote and the returned result comes from
\* the earliest (and only) strategy that produced one.
C5_StrictPriorityOrder ==
  /\ \A i, j \in 1..Len(trace) :
       i < j => Rank(trace[i].strategy) < Rank(trace[j].strategy)
  /\ ~Ended => \A i \in 1..Len(trace) : Rank(trace[i].strategy) < Rank(spc)
  /\ \A i \in 1..Len(trace) :
       trace[i].outcome = "quote" =>
         /\ i = Len(trace)
         /\ spc = "returned"
         /\ result.strategy = trace[i].strategy
  /\ (spc = "returned" /\ result.strategy = "fallback") =>
       \A i \in 1..Len(trace) : trace[i].outcome # "quote"
C5_Witness ==
  /\ spc = "returned"
  /\ result.strategy = "pdf_temas"
  /\ Len(trace) >= 3

\* C6: with STRICT on, a strategy that retrieved candidates of which none
\* gave a quote ends the call with cita_no_encontrada: its retrieval is the
\* last one and nothing is returned.
C6_StrictFailsImmediately ==
  cfg.strict =>
    \A i \in 1..Len(trace) :
      trace[i].outcome = "no_quote" =>
        /\ i = Len(trace)
        /\ spc = "raised"
        /\ result.kind = "error"
        /\ result.err = "cita_no_encontrada"
C6_Witness ==
  /\ cfg.strict
  /\ spc = "raised"
  /\ result.err = "cita_no_encontrada"
  /\ Len(trace) >= 2
  /\ trace[Len(trace)].strategy = "shortlist"

\* C7: with STRICT on, every returned result has tiene_cita and a span with
\* start and end; the answer without quote and the quote with an empty span
\* are returned only with STRICT off.
C7_StrictResultsCarrySpan ==
  spc = "returned" =>
    /\ cfg.strict => (result.tiene_cita /\ result.span = "range")
    /\ (~result.tiene_cita \/ result.span # "range") => ~cfg.strict
C7_Witness ==
  /\ cfg.strict
  /\ spc = "returned"
  /\ result.tiene_cita
  /\ result.span = "range"
  /\ cfg.mode = "incorrecta"

\* C8: a strategy whose retrieval gives no candidates hands over to the next
\* strategy; when the cascade reaches step 5 and STRICT is on, or generate
\* raises or returns an empty response, the call fails with sin_evidencia and
\* returns nothing.
C8_ExhaustedCascadeFails ==
  [][/\ \A k \in StrategyNames :
          (spc = k /\ trace' # trace /\ trace'[Len(trace')].outcome = "no_hits")
            => spc' = NextPos(k)
     /\ (spc = "fallback" /\ (cfg.strict \/ gen' \in {"empty", "raise"}))
            => (spc' = "raised" /\ result'.kind = "error"
                /\ result'.err = "sin_evidencia")]_vars
C8_Witness ==
  /\ spc = "raised"
  /\ result.err = "sin_evidencia"
  /\ gen = "empty"
  /\ Len(trace) >= 2
  /\ \A i \in 1..Len(trace) : trace[i].outcome = "no_hits"

\* the floors the specification gives for strategies 1 to 5
C9_Floors == <<84, 82, 72, 62, 55>>
\* C9: the confidence of a result with a quote is max(floor, rerank score of
\* the chosen candidate), the floors being 0.84, 0.82, 0.72, 0.62, 0.55 for
\* strategies 1 to 5; so for equal scores strategy k never reports less than
\* strategy k+1.
C9_ConfidenceIsMaxOfFloorAndScore ==
  /\ (spc = "returned" /\ result.tiene_cita) =>
        result.confianza = Max(C9_Floors[Rank(result.strategy)], result.score)
  /\ \A k \in StrategyNames : \A s \in Scores :
        Rank(k) < Len(Strategies) => Confianza(k, s) >= Confianza(NextPos(k), s)
C9_Witness ==
  /\ spc = "returned"
  /\ result.strategy = "pdf_ley"
  /\ result.score = 130
  /\ result.confianza = 130

\* C10: every returned result has confianza between 0 and 1 (0 and 100
\* hundredths).
C10_ConfianzaInUnitInterval ==
  spc = "returned" => (0 <= result.confianza /\ result.confianza <= 100)

(***************************************************************************)
(* Claim C11: references split between the question and the option.        *)
(***************************************************************************)
\* _detect_reference found an article number but no law in the question, and
\* a law but no article number in the option
SplitReference ==
  /\ cfg.refQ.num /\ cfg.refQ.ley = NoLey
  /\ ~cfg.refOpt.num /\ cfg.refOpt.ley # NoLey

\* C11: when the question names an article number but no law and the option
\* names a law but no article number, the exact-reference lookup (strategy
\* opt_ref or q_ref) is invoked before the law shortlist search.
C11_SplitReferenceLooksUpFirst ==
  SplitReference =>
    \A i \in 1..Len(trace) :
      trace[i].strategy = "shortlist" =>
        \E j \in 1..(i - 1) : trace[j].strategy \in {"opt_ref", "q_ref"}

(***************************************************************************)
(* The quote matcher (app/verify/quote_matcher.py).  A text is a sequence  *)
(* of characters; indices of a span are 0-based as in the code.            *)
(***************************************************************************)
\* length of the texts given to the matcher
MaxText == 4
\* characters of a text: letters, whitespace (space, tab) and a curly quote
Letters == {"a", "b"}
Spaces == {" ", "tab"}
CurlyQuote == "lq"
StraightQuote == "q"
Chars == Letters \cup Spaces \cup {CurlyQuote}
Texts == UNION {[1..n -> Chars] : n \in 0..MaxText}

IsSpace(ch) == ch \in Spaces

\* normalize_quotes: curly quotes become straight ones, one for one
NormalizeQuotes(s) ==
  [i \in 1..Len(s) |-> IF s[i] = CurlyQuote THEN StraightQuote ELSE s[i]]

RECURSIVE LStrip(_)
LStrip(s) == IF s # <<>> /\ IsSpace(Head(s)) THEN LStrip(Tail(s)) ELSE s
RECURSIVE RStrip(_)
RStrip(s) ==
  IF s # <<>> /\ IsSpace(s[Len(s)]) THEN RStrip(SubSeq(s, 1, Len(s) - 1)) ELSE s
\* str.strip()
Strip(s) == RStrip(LStrip(s))

RECURSIVE CollapseSpaces(_, _)
\* re.sub(r'\s+', ' ', s): every run of whitespace becomes one space
CollapseSpaces(s, prevSpace) ==
  IF s = <<>> THEN <<>>
  ELSE IF IsSpace(Head(s))
       THEN (IF prevSpace THEN <<>> ELSE <<" ">>) \o CollapseSpaces(Tail(s), TRUE)
       ELSE <<Head(s)>> \o CollapseSpaces(Tail(s), FALSE)

\* normalize_spaces
NormalizeSpaces(s) == Strip(CollapseSpaces(s, FALSE))
\* canonical
Canonical(s) == NormalizeSpaces(NormalizeQuotes(s))

RECURSIVE CanonLoop(_, _, _)
\* the while loop of _canonical_with_map from index i (0-based) on: the
\* characters appended to out and the indices appended to map_idx
CanonLoop(s, i, prevSpace) ==
  IF i >= Len(s) THEN [out |-> <<>>, map |-> <<>>]
  ELSE LET ch == s[i + 1]
           rest == CanonLoop(s, i + 1, IsSpace(ch))
       IN  IF IsSpace(ch) /\ prevSpace THEN rest
           ELSE [out |-> <<IF IsSpace(ch) THEN " " ELSE ch>> \o rest.out,
                 map |-> <<i>> \o rest.map]

\* _canonical_with_map: canon is stripped, map_idx is left as the loop built it
CanonicalWithMap(s) ==
  LET r == CanonLoop(NormalizeQuotes(s), 0, FALSE)
  IN  [canon |-> Strip(r.out), map |-> r.map]

\* 0-based positions at which q occurs in c
Occurrences(c, q) ==
  {p \in 0..(Len(c) - Len(q)) : SubSeq(c, p + 1, p + Len(q)) = q}
\* str.find: the first occurrence, -1 if none
Find(c, q) ==
  IF Occurrences(c, q) = {} THEN -1
  ELSE CHOOSE p \in Occurrences(c, q) : \A o \in Occurrences(c, q) : p <= o

NoSpan == [done |-> TRUE, found |-> FALSE, start |-> 0, end |-> 0]

\* find_span_exact
FindSpanExact(context, quote) ==
  LET c == CanonicalWithMap(context)
      q == CanonicalWithMap(quote)
      pos == Find(c.canon, q.canon)
      last == pos + Len(q.canon) - 1
  IN  IF context = <<>> \/ quote = <<>> THEN NoSpan
      ELSE IF c.canon = <<>> \/ q.canon = <<>> THEN NoSpan
      ELSE IF pos = -1 THEN NoSpan
      ELSE IF last + 1 > Len(c.map) THEN NoSpan
      ELSE [done |-> TRUE, found |-> TRUE, start |-> c.map[pos + 1],
            end |-> c.map[last + 1] + 1]

\* context[start:end]
Slice(s, start, end) == SubSeq(s, start + 1, end)

\* the non-empty substrings of s
Substrings(s) == {SubSeq(s, i, j) : i \in 1..Len(s), j \in 1..Len(s)} \ {<<>>}

\* a call with a non-empty context and a substring of its canonical form
InitSpan ==
  /\ IngestStart /\ SolverIdle /\ OthersIdle
  /\ \E c \in Texts \ {<<>>} : \E q \in Substrings(Canonical(c)) :
       fin = [fn |-> "find_span_exact", context |-> c, quote |-> q]
  /\ fout = NotReturned

CallFindSpanExact ==
  /\ fin.fn = "find_span_exact"
  /\ ~fout.done
  /\ fout' = FindSpanExact(fin.context, fin.quote)
  /\ UNCHANGED <<nonFunVars, fin>>

SpecSpan == InitSpan /\ [][CallFindSpanExact]_vars

\* C12: for a non-empty context and a substring s of its canonical form,
\* find_span_exact(context, s) returns (start, end) such that the canonical
\* form of context[start:end] is s.
C12_SpanCanonicalizesToQuote ==
  (fin.fn = "find_span_exact" /\ fout.done) =>
    /\ fout.found
    /\ Canonical(Slice(fin.context, fout.start, fout.end)) = fin.quote

(***************************************************************************)
(* Reciprocal-rank fusion (app/retrieve/retriever.py, lexical.py).         *)
(***************************************************************************)
\* number of candidates that the fused rankings order
MaxCands == 4
\* RRF_K, and k of rrf_fuse
RrfK == 60
\* top_k of rrf_fuse
RrfTopK == 20

\* the rankings of candidates 0..n-1: every order of them
Rankings(n) ==
  {r \in [1..n -> 0..(n - 1)] : \A i, j \in 1..n : r[i] = r[j] => i = j}

RECURSIVE RrfDenominator(_)
\* a common denominator of 1/(k+1) .. 1/(k+n), to add the fractions exactly
RrfDenominator(n) == IF n = 0 THEN 1 ELSE (RrfK + n) * RrfDenominator(n - 1)

RECURSIVE RrfScore(_, _, _)
\* agg[idx]: the sum of 1/(k + pos) over the rankings, in units of
\* 1/RrfDenominator(n)
RrfScore(rankings, idx, n) ==
  IF rankings = <<>> THEN 0
  ELSE LET r == Head(rankings)
           here == {pos \in 1..Len(r) : r[pos] = idx}
       IN  (IF here = {} THEN 0
            ELSE RrfDenominator(n) \div (RrfK + (CHOOSE pos \in here : TRUE)))
           + RrfScore(Tail(rankings), idx, n)

RECURSIVE Dedup(_, _)
Dedup(s, seen) ==
  IF s = <<>> THEN <<>>
  ELSE IF Head(s) \in seen THEN Dedup(Tail(s), seen)
       ELSE <<Head(s)>> \o Dedup(Tail(s), seen \cup {Head(s)})

RECURSIVE Concat(_)
Concat(ss) == IF ss = <<>> THEN <<>> ELSE Head(ss) \o Concat(Tail(ss))

\* the keys of agg in the order in which the loops inserted them
AggKeys(rankings) == Dedup(Concat(rankings), {})

RECURSIVE InsertByRrf(_, _, _, _)
\* idx inserted into sorted, which is ordered by score descending, after the
\* keys of equal score (sorted(..., reverse=True) is stable)
InsertByRrf(sorted, idx, rankings, n) ==
  IF sorted = <<>> THEN <<idx>>
  ELSE IF RrfScore(rankings, Head(sorted), n) >= RrfScore(rankings, idx, n)
       THEN <<Head(sorted)>> \o InsertByRrf(Tail(sorted), idx, rankings, n)
       ELSE <<idx>> \o sorted

RECURSIVE SortByRrf(_, _, _)
SortByRrf(keys, rankings, n) ==
  IF keys = <<>> THEN <<>>
  ELSE InsertByRrf(SortByRrf(SubSeq(keys, 1, Len(keys) - 1), rankings, n),
                   keys[Len(keys)], rankings, n)

\* rrf_fuse / _rrf_fuse
RrfFuse(rankings) ==
  LET n == Len(Head(rankings))
      fused == SortByRrf(AggKeys(rankings), rankings, n)
  IN  SubSeq(fused, 1, Min(RrfTopK, Len(fused)))

\* two rankings of the same candidates
InitFuse ==
  /\ IngestStart /\ SolverIdle /\ OthersIdle
  /\ \E n \in 1..MaxCands : \E r1 \in Rankings(n) : \E r2 \in Rankings(n) :
       fin = [fn |-> "rrf_fuse", r1 |-> r1, r2 |-> r2]
  /\ fout = NotReturned

\* the two lists are fused in both orders
CallRrfFuse ==
  /\ fin.fn = "rrf_fuse"
  /\ ~fout.done
  /\ fout' = [done |-> TRUE, fwd |-> RrfFuse(<<fin.r1, fin.r2>>),
              rev |-> RrfFuse(<<fin.r2, fin.r1>>)]
  /\ UNCHANGED <<nonFunVars, fin>>

SpecFuse == InitFuse /\ [][CallRrfFuse]_vars

\* C13: reciprocal-rank fusion does not depend on the order of its input
\* lists: rrf_fuse([R1, R2]) and rrf_fuse([R2, R1]) give the same fused
\* order, ties included.
C13_FusionIgnoresListOrder ==
  (fin.fn = "rrf_fuse" /\ fout.done) => fout.fwd = fout.rev

(***************************************************************************)
(* Claims C14..C16: what a run of ingest_all does to laws that did not     *)
(* change and to units that fail.                                          *)
(***************************************************************************)
\* a run is in progress for which law l is unchanged: force is false and the
\* snapshot of its directory equals its entry of the saved manifest
UnchangedInRun(l) ==
  /\ ipc # "idle"
  /\ ~run.force
  /\ run.snapArt[l] = manifest.art[l]

\* C14: in a run with force = false, a law whose directory snapshot equals its
\* manifest entry gets no new physical collection, no upsert, and its alias
\* keeps pointing at the same physical collection.
C14_UnchangedLawUntouched ==
  [][\A l \in Laws :
       UnchangedInRun(l) =>
         /\ \A c \in collections' \ collections : BaseOf(c) # ArtBase(l)
         /\ \A c \in collections \cap collections' :
              BaseOf(c) = ArtBase(l) => points'[c] = points[c]
         /\ alias'[ArtBase(l)] = alias[ArtBase(l)]]_vars
C14_Witness ==
  /\ ipc = "upsert"
  /\ run.unit.kind = "articulos"
  /\ \E l \in Laws :
       /\ UnchangedInRun(l)
       /\ l # run.unit.ley
       /\ alias[ArtBase(l)] # NoCol

\* units of the run that have not been ingested yet
RemainingUnits == run.todo # <<>> \/ run.pdfTodo # <<>>

\* C15: when the ingestion of one law or PDF set raises, the run goes on with
\* the remaining changed laws and PDF sets.
C15_FailureDoesNotBlockOthers ==
  [][(UnitRaises /\ RemainingUnits) => ipc' # "idle"]_vars

\* C16: a law whose ingestion did not succeed in a run (it raised, or
\* _ingest_ley returned False) keeps its previous manifest entry.
C16_FailedLawKeepsManifestEntry ==
  [][/\ UnitRaises => manifest' = manifest
     /\ \A l \in run.failed : manifest'.art[l] = manifest.art[l]]_vars

(***************************************************************************)
(* The triggers of ingestion: app/api/server.py and app/cli/watch.py.      *)
(* Every trigger calls reindex_main, which calls ingest_all, in the thread *)
(* that received it.                                                       *)
(***************************************************************************)
\* scope of a /reindex request, as the laws it covers: "all" (every law), or
\* "ley" with a non-empty list of ids
ReindexScopes == SUBSET Laws \ {{}}

\* the base names a run of ingest_all with this scope can write: the articles
\* of the laws in scope, and the PDF bases (include_pdf_temas is never off)
BasesOfRun(scope) ==
  {ArtBase(l) : l \in scope} \cup {PdfTemasBase} \cup {PdfLeyBase(l) : l \in Laws}

InIngestAll(r) == runners[r].st = "ingest_all"

InitServe ==
  /\ IngestStart /\ SolverIdle /\ FunIdle /\ BatchIdle /\ ExtraIdle
  /\ autoIngest \in BOOLEAN
  /\ runners = [r \in Runners |-> Resting]

\* if AUTO_INGEST: threading.Thread(target=_auto_ingest).start(); the thread
\* calls reindex_main(["--all"])
AutoIngestStart ==
  /\ autoIngest
  /\ runners[AutoThread].st = "idle"
  /\ runners' = [runners EXCEPT ![AutoThread] = [st |-> "ingest_all", scope |-> Laws]]
  /\ UNCHANGED <<nonServeVars, autoIngest>>

\* reindex_main returned or raised in _auto_ingest: the thread ends
AutoIngestEnd ==
  /\ InIngestAll(AutoThread)
  /\ runners' = [runners EXCEPT ![AutoThread] = [st |-> "ended", scope |-> {}]]
  /\ UNCHANGED <<nonServeVars, autoIngest>>

\* POST /reindex served by a free worker thread: reindex_main(args)
ReindexStart(w, scope) ==
  /\ runners[w].st = "idle"
  /\ runners' = [runners EXCEPT ![w] = [st |-> "ingest_all", scope |-> scope]]
  /\ UNCHANGED <<nonServeVars, autoIngest>>

\* reindex_main returned or raised: the request is answered
ReindexEnd(w) ==
  /\ InIngestAll(w)
  /\ runners' = [runners EXCEPT ![w] = Resting]
  /\ UNCHANGED <<nonServeVars, autoIngest>>

\* Handler.on_any_event for a .txt or .pdf file, and the debounce lets it
\* through: reindex_main(["--all"]) in the event thread of the observer
WatchTrigger ==
  /\ runners[WatchThread].st = "idle"
  /\ runners' = [runners EXCEPT ![WatchThread] = [st |-> "ingest_all", scope |-> Laws]]
  /\ UNCHANGED <<nonServeVars, autoIngest>>

\* reindex_main returned or raised in on_any_event
WatchEnd ==
  /\ InIngestAll(WatchThread)
  /\ runners' = [runners EXCEPT ![WatchThread] = Resting]
  /\ UNCHANGED <<nonServeVars, autoIngest>>

ServeNext ==
  \/ AutoIngestStart
  \/ AutoIngestEnd
  \/ \E w \in Workers : \E scope \in ReindexScopes : ReindexStart(w, scope)
  \/ \E w \in Workers : ReindexEnd(w)
  \/ WatchTrigger
  \/ WatchEnd

SpecServe == InitServe /\ [][ServeNext]_vars

\* C17: no two ingest_all runs are in progress at the same time against the
\* same base name, whichever of the auto-ingest thread, the /reindex requests
\* and the watcher started them.
C17_IngestRunsSerialized ==
  \A r1, r2 \in Runners :
    (r1 # r2 /\ InIngestAll(r1) /\ InIngestAll(r2)) =>
      BasesOfRun(runners[r1].scope) \cap BasesOfRun(runners[r2].scope) = {}

(***************************************************************************)
(* One question of a batch: process_one and the anti-bias selector         *)
(* _select_best_option_robust of app/cli/run_batch.py (ANTI_BIAS_MODE on). *)
(***************************************************************************)
\* options of a question: the first NumOptions of A) .. D)
NumOptions == 3
\* MC_VALIDATION_PASSES ranges over 0..MaxPasses
MaxPasses == 2
OptionLetters == <<"A", "B", "C", "D">>
BatchLetters == {OptionLetters[i] : i \in 1..Min(NumOptions, Len(OptionLetters))}

\* what solve_question does for one option: a quote from a TXT source, a quote
\* from a PDF source, the answer without quote, or an exception
SolveOutcomes == {"txt", "pdf", "sin_cita", "raise"}
InfoOf(o) ==
  CASE o = "txt"      -> [NoInfo EXCEPT !.kind = "ok", !.cita = TRUE, !.txt = TRUE, !.conf = 90]
    [] o = "pdf"      -> [NoInfo EXCEPT !.kind = "ok", !.cita = TRUE, !.conf = 60]
    [] o = "sin_cita" -> [NoInfo EXCEPT !.kind = "ok", !.conf = 40]
\* {"tiene_cita": False, "fuente": {}, "confianza": 0.0, "error": "sin_evidencia"}
DefaultInfo == [NoInfo EXCEPT !.kind = "default"]

\* _solve_with_fallback: first is the outcome of the normal attempt, second
\* that of the attempt with relaxed settings; n counts the solve_question calls
SolveWithFallback(first, second) ==
  IF first \in {"txt", "pdf"} THEN [info |-> InfoOf(first), n |-> 1]
  ELSE IF ~quest.fallbackRetrieval THEN [info |-> DefaultInfo, n |-> 1]
  ELSE IF second = "raise" THEN [info |-> DefaultInfo, n |-> 2]
  ELSE [info |-> InfoOf(second), n |-> 2]

B2N(b) == IF b THEN 1 ELSE 0
\* _score_option(a) < _score_option(b): tuples (tiene_cita, is_txt, conf)
ScoreLess(a, b) ==
  \/ B2N(a.cita) < B2N(b.cita)
  \/ a.cita = b.cita /\ B2N(a.txt) < B2N(b.txt)
  \/ a.cita = b.cita /\ a.txt = b.txt /\ a.conf < b.conf

\* max / min over pasada_results.keys() by score: the first key, in insertion
\* order, that no other key beats
BestOfPass(results) ==
  LET beats(i, j) == IF quest.mode = "correcta"
                     THEN ScoreLess(results[j].info, results[i].info)
                     ELSE ScoreLess(results[i].info, results[j].info)
      best == CHOOSE i \in 1..Len(results) :
                /\ \A j \in 1..Len(results) : ~beats(j, i)
                /\ \A j \in 1..(i - 1) : beats(i, j)
  IN  results[best]

\* a variant of the tally that records a vote without adding it to the
\* votes the letter already has
AddVoteOverwrites(v, letter, conf) ==
  IF \E i \in 1..Len(v) : v[i].letter = letter
  THEN [i \in 1..Len(v) |->
          IF v[i].letter = letter THEN [v[i] EXCEPT !.n = 1, !.conf = conf] ELSE v[i]]
  ELSE Append(v, [letter |-> letter, n |-> 1, conf |-> conf])

\* vote_scores[best] += 1; confidence_scores[best] += confidence
AddVote(v, letter, conf) ==
  IF \E i \in 1..Len(v) : v[i].letter = letter
  THEN [i \in 1..Len(v) |->
          IF v[i].letter = letter
          THEN [v[i] EXCEPT !.n = @ + 1, !.conf = @ + conf] ELSE v[i]]
  ELSE Append(v, [letter |-> letter, n |-> 1, conf |-> conf])

\* a variant of the winner that takes the last key with most votes
WinnerOfLastMax(v) ==
  v[CHOOSE i \in 1..Len(v) :
      /\ \A j \in 1..Len(v) : v[j].n <= v[i].n
      /\ \A j \in (i + 1)..Len(v) : v[j].n < v[i].n]

\* winner = max(vote_scores.keys(), key=votes): the first key with most votes
WinnerOf(v) ==
  v[CHOOSE i \in 1..Len(v) :
      /\ \A j \in 1..Len(v) : v[j].n <= v[i].n
      /\ \A j \in 1..(i - 1) : v[j].n < v[i].n]

RECURSIVE SumVotes(_)
SumVotes(v) == IF v = <<>> THEN 0 ELSE Head(v).n + SumVotes(Tail(v))

\* the result record that process_one builds from info
RecordOf(letra, info) ==
  [opcion_elegida |-> letra,
   confianza |-> info.conf,
   confianza_robusta |-> IF info.robusta.den # 0 THEN info.robusta
                         ELSE [num |-> info.conf, den |-> 1],
   verificacion_ok |-> info.cita,
   anti_bias_votes |-> info.anti_bias_votes]

InitBatch ==
  /\ IngestStart /\ SolverIdle /\ FunIdle /\ ServeIdle /\ ExtraIdle
  /\ quest \in [opciones : SUBSET BatchLetters, gold : BatchLetters \cup {"none"},
                passes : 0..MaxPasses, fallbackRetrieval : BOOLEAN,
                mode : {"correcta", "incorrecta"}]
  /\ bpc = "start"
  /\ pasada = 0
  /\ pres = <<>>
  /\ votes = <<>>
  /\ calls = 0
  /\ sel = NoSel
  /\ rec = NoRec

GoldUsable == quest.gold \in quest.opciones

\* process_one, "Modo 1": the question carries its correct letter
SolveGold(o) ==
  /\ bpc = "start"
  /\ GoldUsable
  /\ IF o = "raise" THEN bpc' = "raised" /\ rec' = rec
     ELSE bpc' = "emitted" /\ rec' = RecordOf(quest.gold, InfoOf(o))
  /\ UNCHANGED <<nonBatchVars, quest, pasada, pres, votes, calls, sel>>

\* process_one, "Modo 2": _select_best_option is called
EnterSelector ==
  /\ bpc = "start"
  /\ ~GoldUsable
  /\ bpc' = "pass"
  /\ UNCHANGED <<nonBatchVars, quest, pasada, pres, votes, calls, sel, rec>>

Evaluated == {pres[i].letter : i \in 1..Len(pres)}

\* one iteration of "for L in letters" (the shuffle decides which letter is
\* next): _solve_with_fallback and the entry of pasada_results
EvalOption(L, first, second) ==
  /\ bpc = "pass"
  /\ pasada < quest.passes
  /\ L \in quest.opciones \ Evaluated
  /\ LET r == SolveWithFallback(first, second)
     IN  /\ pres' = Append(pres, [letter |-> L, info |-> r.info])
         /\ calls' = calls + r.n
  /\ UNCHANGED <<nonBatchVars, quest, bpc, pasada, votes, sel, rec>>

\* the end of one pass: the best letter of the pass gets its vote
EndPass ==
  /\ bpc = "pass"
  /\ pasada < quest.passes
  /\ Evaluated = quest.opciones
  /\ votes' = IF pres = <<>> THEN votes
              ELSE AddVote(votes, BestOfPass(pres).letter, BestOfPass(pres).info.conf)
  /\ pasada' = pasada + 1
  /\ pres' = <<>>
  /\ UNCHANGED <<nonBatchVars, quest, bpc, calls, sel, rec>>

\* after the passes: no votes raises formato_invalido, else the winner
Decide ==
  /\ bpc = "pass"
  /\ pasada = quest.passes
  /\ IF votes = <<>> THEN bpc' = "sel_raised" /\ sel' = sel
     ELSE bpc' = "final" /\ sel' = [sel EXCEPT !.winner = WinnerOf(votes).letter]
  /\ UNCHANGED <<nonBatchVars, quest, pasada, pres, votes, calls, rec>>

\* _solve_with_fallback for the winner, the robustness keys, return
Final(first, second) ==
  /\ bpc = "final"
  /\ LET r == SolveWithFallback(first, second)
         w == WinnerOf(votes)
     IN  /\ sel' = [sel EXCEPT !.info =
                      [r.info EXCEPT !.anti_bias_votes = votes,
                                     !.robusta = [num |-> w.conf, den |-> w.n]]]
         /\ calls' = calls + r.n
  /\ bpc' = "selected"
  /\ UNCHANGED <<nonBatchVars, quest, pasada, pres, votes, rec>>

\* process_one after the selector: solve_question for the chosen letter, and
\* the record built from the info of that call
SolveChosen(o) ==
  /\ bpc = "selected"
  /\ IF o = "raise" THEN bpc' = "raised" /\ rec' = rec
     ELSE bpc' = "emitted" /\ rec' = RecordOf(sel.winner, InfoOf(o))
  /\ UNCHANGED <<nonBatchVars, quest, pasada, pres, votes, calls, sel>>

BatchNext ==
  \/ \E o \in SolveOutcomes : SolveGold(o)
  \/ EnterSelector
  \/ \E L \in BatchLetters : \E first, second \in SolveOutcomes : EvalOption(L, first, second)
  \/ EndPass
  \/ Decide
  \/ \E first, second \in SolveOutcomes : Final(first, second)
  \/ \E o \in SolveOutcomes : SolveChosen(o)

SpecBatch == InitBatch /\ [][BatchNext]_vars

(***************************************************************************)
(* Claims C18..C20: the anti-bias selector.                                *)
(***************************************************************************)
\* the selector was called with at least one pass and a non-empty option map
SelectorApplies == ~GoldUsable /\ quest.passes >= 1 /\ quest.opciones # {}

\* C18: for N >= 1 passes and a non-empty option map the selector returns a
\* letter of the option map and a non-empty vote map whose values sum to N,
\* whatever solve_question returns or raises; it never raises itself.
C18_VotesSumToPasses ==
  SelectorApplies =>
    /\ bpc # "sel_raised"
    /\ bpc = "selected" =>
         /\ sel.winner \in quest.opciones
         /\ sel.info.anti_bias_votes # <<>>
         /\ SumVotes(sel.info.anti_bias_votes) = quest.passes
         /\ \A i \in 1..Len(sel.info.anti_bias_votes) :
              sel.info.anti_bias_votes[i].letter \in quest.opciones
C18_Witness ==
  /\ SelectorApplies
  /\ bpc = "selected"
  /\ quest.passes = MaxPasses
  /\ Len(sel.info.anti_bias_votes) = 1
  /\ sel.info.kind = "default"

\* C19: for one question the selector invokes solve_question at most
\* N x |options| times, retries and the final call for the winner included.
C19_CascadeCallsBounded ==
  calls <= quest.passes * Cardinality(quest.opciones)

\* C20: when the question has no usable gold letter and the selector chose
\* the answer, the record of process_one carries the selector's vote tally
\* (non-empty, summing to the number of passes) and a confianza_robusta equal
\* to the average confidence of the winner's winning passes.
C20_RecordCarriesVoteTally ==
  (bpc = "emitted" /\ ~GoldUsable) =>
    /\ rec.anti_bias_votes # <<>>
    /\ SumVotes(rec.anti_bias_votes) = quest.passes
    /\ rec.confianza_robusta.den # 0
    /\ rec.confianza_robusta.num * WinnerOf(votes).n
         = WinnerOf(votes).conf * rec.confianza_robusta.den

(***************************************************************************)
(* Claims C21, C22: failures of the collaborators of solve_question.       *)
(***************************************************************************)
\* the errors solve_question raises itself, and the embedding failure
OwnErrors == {"cita_no_encontrada", "sin_evidencia", "embedding_error"}

\* C21: a failure of a vector-store, reranker or generation call is never
\* propagated out of solve_question as that call's exception: whatever the
\* call raises is one of solve_question's own errors (or the embedding
\* failure).
C21_UpstreamFailureNotPropagated ==
  result.kind = "error" => result.err \in OwnErrors

\* some search of the call failed on its embedding
EmbedFailed == \E i \in 1..Len(trace) : trace[i].outcome = "embed_error"

\* C22: a call in which an embedding failed never returns a result, neither
\* from a later strategy nor from the ungrounded fallback.
C22_EmbeddingFailureAborts ==
  EmbedFailed => spc # "returned"

(***************************************************************************)
(* run_batch of app/cli/run_batch.py: the loop over the question files.    *)
(* File i of the sorted list is i; files 1 and 2 lie in different          *)
(* subdirectories and have the same basename.                              *)
(***************************************************************************)
\* os.path.basename(f)
BaseName(f) == IF f = 1 THEN 2 ELSE f
\* str(e) of what process_one raises; "" becomes "error_desconocido"
Reasons == {"formato_invalido", "cita_no_encontrada", "sin_evidencia", "error_desconocido"}

InitLot ==
  /\ IngestStart /\ SolverIdle /\ FunIdle /\ ServeIdle /\ BatchIdle
  /\ EnvIdle /\ CacheIdle /\ WatchIdle
  /\ lpc = "loop"
  /\ files \in 0..MaxFiles
  /\ fidx = 1
  /\ okc = 0
  /\ moved = 0
  /\ fails = <<>>
  /\ jsonl = {}
  /\ fwhere = [f \in 1..files |-> "input"]
  /\ report = <<>>

\* process_one(f) returns: its result is appended to the JSONL, okc += 1
ProcessOk ==
  /\ lpc = "loop"
  /\ fidx <= files
  /\ jsonl' = jsonl \cup {fidx}
  /\ okc' = okc + 1
  /\ fidx' = fidx + 1
  /\ UNCHANGED <<nonLotVars, lpc, files, moved, fails, fwhere, report>>

\* shutil.move(f, dst) succeeds: f is now _no_resueltas/<basename>, in the
\* place of whatever file of that name was there (os.rename replaces it)
MoveToQuarantine(w, f) ==
  [g \in DOMAIN w |->
     IF g = f THEN "quarantine"
     ELSE IF w[g] = "quarantine" /\ BaseName(g) = BaseName(f) THEN "overwritten"
     ELSE w[g]]

\* process_one(f) raises: the except block of the loop; mv tells whether
\* shutil.move succeeds ("except Exception: pass" when it does not)
ProcessFails(reason, mv) ==
  /\ lpc = "loop"
  /\ fidx <= files
  /\ fwhere' = IF mv THEN MoveToQuarantine(fwhere, fidx) ELSE fwhere
  /\ fails' = Append(fails, [archivo |-> fidx, motivo |-> reason])
  /\ moved' = moved + 1
  /\ fidx' = fidx + 1
  /\ UNCHANGED <<nonLotVars, lpc, files, okc, jsonl, report>>

\* process_one(f) raises and os.makedirs(dst_dir) of the except block raises
\* too: nothing catches it, run_batch ends
HandlerRaises ==
  /\ lpc = "loop"
  /\ fidx <= files
  /\ lpc' = "aborted"
  /\ UNCHANGED <<nonLotVars, files, fidx, okc, moved, fails, jsonl, fwhere, report>>

\* after the loop: "if fails:" the CSV and the JSON report are written
WriteReport ==
  /\ lpc = "loop"
  /\ fidx > files
  /\ report' = fails
  /\ lpc' = "done"
  /\ UNCHANGED <<nonLotVars, files, fidx, okc, moved, fails, jsonl, fwhere>>

LotNext ==
  \/ ProcessOk
  \/ \E reason \in Reasons, mv \in BOOLEAN : ProcessFails(reason, mv)
  \/ HandlerRaises
  \/ WriteReport

\* one run of run_batch
SpecLot == InitLot /\ [][LotNext]_vars

(***************************************************************************)
(* Claim C23: every file of a batch is resolved or quarantined.            *)
(***************************************************************************)
\* the failure report lists file f with a reason
Reported(f) == \E i \in 1..Len(report) : report[i].archivo = f /\ report[i].motivo \in Reasons

\* C23: run_batch processes every selected file whatever fails on the way,
\* and when it ends each file is either resolved or in _no_resueltas with its
\* reason in the failure report, and resolved + moved is the number of files.
C23_EveryFileResolvedOrQuarantined ==
  /\ lpc # "aborted"
  /\ lpc = "done" =>
       /\ okc + moved = files
       /\ \A f \in 1..files :
            f \in jsonl \/ (fwhere[f] = "quarantine" /\ Reported(f))

(***************************************************************************)
(* Claim C24: _first_fallback_idx applied to the payloads that             *)
(* _pick_and_quote kept and their reranked order.                          *)
(***************************************************************************)
\* payloads with a text; "ley_id" is a law, "desconocida" or missing (NoLey)
Payloads ==
  [readable : {TRUE}, ley : QLaws \cup {Desconocida, NoLey}, score : Scores,
   verif : {"noquote"}]
PayloadLists == UNION {[1..n -> Payloads] : n \in 1..MaxPayloads}

InitFallbackIdx ==
  /\ IngestStart /\ OthersIdle
  /\ \E guard \in BOOLEAN :
       cfg = [strict |-> FALSE, lawGuard |-> guard, mode |-> "correcta",
              refOpt |-> NoRef, refQ |-> NoRef]
  /\ spc = "idle" /\ hint = NoLey /\ trace = <<>> /\ gen = "none" /\ result = NoResult
  /\ \E ps \in PayloadLists : \E expected \in {NoLey} \cup QLaws :
       fin = [fn |-> "first_fallback_idx", payloads |-> ps, order |-> Rerank(ps),
              expected |-> expected]
  /\ fout = NotReturned

\* fb_idx = _first_fallback_idx(order, payloads, expected_ley_id)
CallFirstFallbackIdx ==
  /\ fin.fn = "first_fallback_idx"
  /\ ~fout.done
  /\ fout' = [done |-> TRUE, idx |-> FirstFallbackIdx(fin.order, fin.payloads, fin.expected)]
  /\ UNCHANGED <<nonFunVars, fin>>

SpecFallbackIdx == InitFallbackIdx /\ [][CallFirstFallbackIdx]_vars

\* the ranks of the candidates of the call whose law passes the guard
PassingRanks ==
  {i \in 1..Len(fin.order) : GuardMatch(fin.expected, fin.payloads[fin.order[i]].ley)}

QLine(txt, starts, hasCorrecta, tail, cue) ==
  [txt |-> txt, starts |-> starts, hasCorrecta |-> hasCorrecta, tail |-> tail, cue |-> cue]

\* "INCORRECTA" and "CORRECTA" both hold the substring "CORRECTA"
LBlank == QLine("", "", FALSE, "", FALSE)
LPlain == QLine("Indique el plazo de prescripcion", "", FALSE,
                "Indique el plazo de prescripcion", FALSE)
LCue == QLine("Todas son ciertas, excepto:", "", FALSE, "", TRUE)
LOptA == QLine("A) uno", "A)", FALSE, "A) uno", FALSE)
LOptB == QLine("B) dos", "B)", FALSE, "B) dos", FALSE)
LCorrA == QLine("Correcta: A", "", TRUE, "A", FALSE)
LCorrB == QLine("Correcta: B)", "", TRUE, "B)", FALSE)
LModoInc == QLine("Modo: incorrecta", "MODO:", TRUE, "incorrecta", FALSE)
LModoCor == QLine("Modo: correcta", "MODO:", TRUE, "correcta", FALSE)
QLines == {LBlank, LPlain, LCue, LOptA, LOptB, LCorrA, LCorrB, LModoInc, LModoCor}
QFiles == UNION {[1..n -> QLines] : n \in 1..MaxLines}

\* tail.replace(")", "").strip().upper()
CorrectOf(tail) ==
  CASE tail = "A" -> "A"
    [] tail = "B)" -> "B"
    [] tail = "incorrecta" -> "INCORRECTA"
    [] tail = "correcta" -> "CORRECTA"
    [] OTHER -> tail

\* the key of opts that a line starting with "A)" .. "D)" sets
OptKey(starts) ==
  CASE starts = "A)" -> "A" [] starts = "B)" -> "B" [] starts = "C)" -> "C"
    [] starts = "D)" -> "D"

\* the locals of the loop before the first line; None is "none"
ParseStart == [enun_lines |-> <<>>, opts |-> {}, correct |-> "none", modo |-> "none"]

\* one iteration of "for ln in lines", in the order of its tests
ParseLine(st, ln) ==
  IF ln.txt = ""
  THEN IF st.enun_lines # <<>> THEN [st EXCEPT !.enun_lines = Append(@, "")] ELSE st
  ELSE IF ln.starts \in {"A)", "B)", "C)", "D)"}
  THEN [st EXCEPT !.opts = @ \cup {OptKey(ln.starts)}]
  ELSE IF ln.hasCorrecta
  THEN [st EXCEPT !.correct = CorrectOf(ln.tail)]
  ELSE IF ln.starts = "MODO:"
  THEN IF ln.tail \in {"correcta", "incorrecta"} THEN [st EXCEPT !.modo = ln.tail] ELSE st
  ELSE [st EXCEPT !.enun_lines = Append(@, ln.txt)]

RECURSIVE ParseLoop(_, _)
ParseLoop(st, lines) ==
  IF lines = <<>> THEN st ELSE ParseLoop(ParseLine(st, Head(lines)), Tail(lines))

RECURSIVE StripBlank(_)
\* "\n".join(enun_lines).strip(): the blank lines at the end go (the loop
\* never puts one at the start)
StripBlank(ls) ==
  IF ls # <<>> /\ ls[Len(ls)] = "" THEN StripBlank(SubSeq(ls, 1, Len(ls) - 1)) ELSE ls

\* the inference of the mode from the statement
HasCue(enun_lines) ==
  \E i \in 1..Len(enun_lines) : \E ln \in QLines : ln.txt = enun_lines[i] /\ ln.cue

\* parse_question_file
ParseQuestionFile(lines) ==
  LET st == ParseLoop(ParseStart, lines)
      modo == IF st.modo # "none" THEN st.modo
              ELSE IF HasCue(st.enun_lines) THEN "incorrecta" ELSE "none"
  IN  [enunciado |-> StripBlank(st.enun_lines), opciones |-> st.opts,
       correcta |-> st.correct, modo |-> IF modo = "none" THEN "correcta" ELSE modo]

InitParse ==
  /\ IngestStart /\ SolverIdle /\ OthersIdle
  /\ \E lines \in QFiles : fin = [fn |-> "parse_question_file", lines |-> lines]
  /\ fout = NotReturned

CallParseQuestionFile ==
  /\ fin.fn = "parse_question_file"
  /\ ~fout.done
  /\ fout' = [done |-> TRUE, q |-> ParseQuestionFile(fin.lines)]
  /\ UNCHANGED <<nonFunVars, fin>>

SpecParse == InitParse /\ [][CallParseQuestionFile]_vars

(***************************************************************************)
(* Claim C25: the explicit mode line.                                      *)
(***************************************************************************)
\* the lines of the file that are a mode line / a "Correcta: X" line
ModeLines == {i \in 1..Len(fin.lines) : fin.lines[i] \in {LModoInc, LModoCor}}
CorrectLines == {i \in 1..Len(fin.lines) : fin.lines[i] \in {LCorrA, LCorrB}}
\* the letter a "Correcta: X" line gives
LetterOf(ln) == IF ln = LCorrA THEN "A" ELSE "B"

\* C25: when the file holds one explicit mode line, the parsed mode is the
\* value of that line, the parsed correct letter is that of the (last)
\* "Correcta: X" line, and the mode line is no part of the statement.
C25_ExplicitModeRespected ==
  (fin.fn = "parse_question_file" /\ fout.done /\ Cardinality(ModeLines) = 1) =>
    LET m == CHOOSE i \in ModeLines : TRUE
    IN  /\ fout.q.modo = fin.lines[m].tail
        /\ CorrectLines # {} =>
             fout.q.correcta =
               LetterOf(fin.lines[CHOOSE i \in CorrectLines : \A j \in CorrectLines : j <= i])
        /\ \A i \in 1..Len(fout.q.enunciado) : fout.q.enunciado[i] # fin.lines[m].txt

(***************************************************************************)
(* _solve_with_fallback of app/cli/run_batch.py, called by the threads of  *)
(* one process (the /batch endpoint of the server is a synchronous         *)
(* handler, which the server runs in a thread pool).  A setting is the     *)
(* value the code derives from the text of the variable: an integer for    *)
(* MINLEN_*, the truth of .lower() == "true" for the STRICT_* ones; a      *)
(* variable that is not set is its default.                                *)
(***************************************************************************)
Callers == 1..MaxCallers

\* os.environ[...] = "30", "45", "false", "false"
Relaxed == [MINLEN_SHORT |-> 30, MINLEN_LONG |-> 45, STRICT_LAW_GUARD |-> FALSE,
            STRICT_CITATION |-> FALSE]
\* the environments the process can be started with
StartEnvs == [MINLEN_SHORT : {60}, MINLEN_LONG : {90}, STRICT_LAW_GUARD : BOOLEAN,
              STRICT_CITATION : BOOLEAN]
NoSettings == [MINLEN_SHORT |-> 0, MINLEN_LONG |-> 0, STRICT_LAW_GUARD |-> FALSE,
               STRICT_CITATION |-> FALSE]
\* the locals of a call that has not made its first attempt
NewCall == [pc |-> "start", orig |-> NoSettings, attempts |-> 0, first |-> "none",
            usedFirst |-> NoSettings, usedRetry |-> NoSettings, ret |-> "none"]

\* STRICT, STRICT_LAW_GUARD, MINLEN_SHORT, MINLEN_LONG of solver.py: read from
\* the environment once, when the module is imported
SolverSettings == consts.settings

InitEnv ==
  /\ IngestStart /\ SolverIdle /\ FunIdle /\ ServeIdle /\ BatchIdle
  /\ LotIdle /\ CacheIdle /\ WatchIdle
  /\ env \in StartEnvs
  /\ \E fb \in BOOLEAN : consts = [settings |-> env, FALLBACK_RETRIEVAL |-> fb]
  /\ thr = [t \in Callers |-> NewCall]

\* 1. the normal attempt: solve_question returns with a quote ("cita"),
\* returns without one ("nocita") or raises
FirstAttempt(t, o) ==
  /\ thr[t].pc = "start"
  /\ thr' = [thr EXCEPT ![t] =
       [@ EXCEPT !.attempts = 1, !.first = o, !.usedFirst = SolverSettings,
                 !.pc = IF o = "cita" THEN "done"
                        ELSE IF consts.FALLBACK_RETRIEVAL THEN "save" ELSE "done",
                 !.ret = IF o = "cita" THEN "first"
                         ELSE IF consts.FALLBACK_RETRIEVAL THEN "none" ELSE "default"]]
  /\ UNCHANGED <<nonEnvVars, env, consts>>

\* orig_* = os.environ.get(...)
SaveOrig(t) ==
  /\ thr[t].pc = "save"
  /\ thr' = [thr EXCEPT ![t] = [@ EXCEPT !.orig = env, !.pc = "relax"]]
  /\ UNCHANGED <<nonEnvVars, env, consts>>

\* os.environ[...] = the permissive values
Relax(t) ==
  /\ thr[t].pc = "relax"
  /\ env' = Relaxed
  /\ thr' = [thr EXCEPT ![t] = [@ EXCEPT !.pc = "retry"]]
  /\ UNCHANGED <<nonEnvVars, consts>>

\* the second solve_question call: it returns or raises
Retry(t, o) ==
  /\ thr[t].pc = "retry"
  /\ thr' = [thr EXCEPT ![t] =
       [@ EXCEPT !.attempts = @ + 1, !.usedRetry = SolverSettings, !.pc = "restore",
                 !.ret = IF o = "ok" THEN "retry" ELSE "default"]]
  /\ UNCHANGED <<nonEnvVars, env, consts>>

\* os.environ[...] = orig_*, after the return as in the except block
Restore(t) ==
  /\ thr[t].pc = "restore"
  /\ env' = thr[t].orig
  /\ thr' = [thr EXCEPT ![t] = [@ EXCEPT !.pc = "done"]]
  /\ UNCHANGED <<nonEnvVars, consts>>

EnvNext ==
  \E t \in Callers :
    \/ \E o \in {"cita", "nocita", "raise"} : FirstAttempt(t, o)
    \/ SaveOrig(t)
    \/ Relax(t)
    \/ \E o \in {"ok", "raise"} : Retry(t, o)
    \/ Restore(t)

\* concurrent calls of _solve_with_fallback
SpecEnv == InitEnv /\ [][EnvNext]_vars

(***************************************************************************)
(* Claims C26, C27: the relaxed retry.                                     *)
(***************************************************************************)
\* C26: with FALLBACK_RETRIEVAL on, a call whose first attempt failed or gave
\* no quote has called solve_question exactly once more, and that call ran
\* with the relaxed settings.
C26_RetryUsesRelaxedSettings ==
  \A t \in DOMAIN thr :
    (/\ consts.FALLBACK_RETRIEVAL
     /\ thr[t].pc = "done" /\ thr[t].first \in {"nocita", "raise"}) =>
      /\ thr[t].attempts = 2
      /\ thr[t].usedRetry = Relaxed

\* C27: when every call has completed, the four settings of the process
\* environment are those of before the first call (which are the ones the
\* module constants were read from).
C27_EnvironmentRestored ==
  (thr # <<>> /\ \A t \in DOMAIN thr : thr[t].pc = "done") => env = consts.settings

(***************************************************************************)
(* The law-name cache of app/retrieve/law_classifier.py, used by the       *)
(* threads of one process (the /ask endpoint is a synchronous handler).    *)
(* A cache entry is the content of alias.txt it was computed from, 0 for   *)
(* None.                                                                   *)
(***************************************************************************)
\* the locals of a shortlist_laws call that has not started
NewLookup == [pc |-> "start", alias |-> 0, seen |-> NoCache]

InitCache ==
  /\ IngestStart /\ SolverIdle /\ FunIdle /\ ServeIdle /\ BatchIdle
  /\ LotIdle /\ EnvIdle /\ WatchIdle
  /\ cache = NoCache
  /\ aliasFile = 1
  /\ cthr = [t \in Callers |-> NewLookup]
  /\ inits = 0

\* alias.txt is edited
EditAlias ==
  /\ aliasFile < MaxAlias
  /\ aliasFile' = aliasFile + 1
  /\ UNCHANGED <<nonCacheVars, cache, cthr, inits>>

\* _ensure_cache: if _cache["alias"] is None
CheckCache(t) ==
  /\ cthr[t].pc = "start"
  /\ cthr' = [cthr EXCEPT ![t] =
       [@ EXCEPT !.pc = IF cache.alias = 0 THEN "load" ELSE "query"]]
  /\ UNCHANGED <<nonCacheVars, cache, aliasFile, inits>>

\* alias = load_alias(...)
LoadAlias(t) ==
  /\ cthr[t].pc = "load"
  /\ cthr' = [cthr EXCEPT ![t] = [@ EXCEPT !.alias = aliasFile, !.pc = "embed"]]
  /\ UNCHANGED <<nonCacheVars, cache, aliasFile, inits>>

\* vecs = embed_texts(names)
EmbedNames(t) ==
  /\ cthr[t].pc = "embed"
  /\ inits' = inits + 1
  /\ cthr' = [cthr EXCEPT ![t] = [@ EXCEPT !.pc = "update"]]
  /\ UNCHANGED <<nonCacheVars, cache, aliasFile>>

\* _cache.update({...})
UpdateCache(t) ==
  /\ cthr[t].pc = "update"
  /\ cache' = [alias |-> cthr[t].alias, law_vecs |-> cthr[t].alias,
               law_tokens |-> cthr[t].alias]
  /\ cthr' = [cthr EXCEPT ![t] = [@ EXCEPT !.pc = "query"]]
  /\ UNCHANGED <<nonCacheVars, aliasFile, inits>>

\* the rest of shortlist_laws: the scores are computed from the cache
ScoreLaws(t) ==
  /\ cthr[t].pc = "query"
  /\ cthr' = [cthr EXCEPT ![t] = [@ EXCEPT !.seen = cache, !.pc = "done"]]
  /\ UNCHANGED <<nonCacheVars, cache, aliasFile, inits>>

CacheNext ==
  \/ EditAlias
  \/ \E t \in Callers :
       \/ CheckCache(t)
       \/ LoadAlias(t)
       \/ EmbedNames(t)
       \/ UpdateCache(t)
       \/ ScoreLaws(t)

\* concurrent calls of shortlist_laws
SpecCache == InitCache /\ [][CacheNext]_vars

(***************************************************************************)
(* Claim C28: the cache is initialised once.                               *)
(***************************************************************************)
\* C28: the law names are embedded by at most one caller, and all the calls
\* that have completed computed their scores from the same cache.
C28_CacheInitialisedOnce ==
  /\ inits <= 1
  /\ \A t, u \in DOMAIN cthr :
       (cthr[t].pc = "done" /\ cthr[u].pc = "done") => cthr[t].seen = cthr[u].seen

(***************************************************************************)
(* Claim C29: the version tags of successive runs.                         *)
(***************************************************************************)
\* C29: the tag a run of ingest_all obtains is greater than the tag of every
\* earlier run, so it is greater than the version of every physical
\* collection that exists when the run starts.
C29_VersionTagsStrictlyIncrease ==
  [][runs' = runs + 1 => \A c \in collections : run'.version > c.ver]_vars

(***************************************************************************)
(* Claim C30: the tie-break of the anti-bias selector.                     *)
(***************************************************************************)
\* C30: the letters stand in the tally in the order of their first winning
\* pass (a pass adds its winner at the end when it has no vote yet and moves
\* no letter), and the selector's winner is a letter with the most votes,
\* the one that stands first in the tally among those; the order in which the
\* options were evaluated inside the passes plays no part in it.
C30_WinnerIsEarliestMax ==
  [][/\ pasada' = pasada + 1 =>
          /\ Len(votes') \in {Len(votes), Len(votes) + 1}
          /\ \A i \in 1..Len(votes) : votes'[i].letter = votes[i].letter
          /\ \A i, j \in 1..Len(votes') :
               votes'[i].letter = votes'[j].letter => i = j
     /\ (bpc = "pass" /\ bpc' = "final") =>
          \E i \in 1..Len(votes) :
            /\ sel'.winner = votes[i].letter
            /\ \A j \in 1..Len(votes) : votes[j].n <= votes[i].n
            /\ \A j \in 1..(i - 1) : votes[j].n < votes[i].n]_vars
\* two letters won one pass each and the winner is the one that won first
C30_Witness ==
  /\ bpc = "selected"
  /\ Len(votes) = 2
  /\ votes[1].n = votes[2].n
  /\ sel.winner = votes[1].letter

(***************************************************************************)
(* _detect_reference of solver.py and the call of solve_question on the    *)
(* references it detects.  A text is given by what the searches of         *)
(* _detect_reference find in it:                                           *)
(*   art    the number of the "artículo N" match, 0 when there is none;    *)
(*   disp   the type of the "disposición <tipo> <ordinal>" match, "" when  *)
(*          there is none;                                                 *)
(*   anexo  whether "anexo <n>" matches;                                   *)
(*   ley    the law whose id or name is in the text, NoLey when none is.   *)
(***************************************************************************)
\* num of a reference without a number: None
NoNum == 0
\* the question texts and the option texts of the calls
QTexts == [art : {NoNum, 12}, disp : {"", "adicional"}, anexo : BOOLEAN,
           ley : {NoLey} \cup QLaws]
OptTexts == [art : {NoNum, 12}, disp : {""}, anexo : {FALSE}, ley : {NoLey, 1}]

\* _detect_reference: num is set by the article match alone
DetectReference(t) ==
  [pieza_tipo |-> IF t.art # NoNum THEN "articulo"
                  ELSE IF t.disp # "" THEN "disposicion"
                  ELSE IF t.anexo THEN "anexo"
                  ELSE "articulo",
   num |-> IF t.art # NoNum THEN t.art ELSE NoNum,
   ley_id |-> t.ley]

\* what the conditions of solve_question read of a reference:
\* ref.get("num") is not None, ref.get("ley_id")
RefOf(r) == [num |-> r.num # NoNum, ley |-> r.ley_id]

InitDetect ==
  /\ IngestStart /\ OthersIdle
  /\ \E q \in QTexts : \E o \in OptTexts :
       /\ fin = [fn |-> "solve_question", enunciado |-> q, opcion |-> o]
       /\ \E strict \in BOOLEAN :
            cfg = [strict |-> strict, lawGuard |-> FALSE, mode |-> "correcta",
                   refOpt |-> RefOf(DetectReference(o)),
                   refQ |-> RefOf(DetectReference(q))]
  /\ fout = NotReturned
  /\ spc = "opt_ref"
  /\ hint = NoLey
  /\ trace = <<>>
  /\ gen = "none"
  /\ result = NoResult

\* solve_question called on a question text and an option text
SpecDetect == InitDetect /\ [][SolveNext]_vars

(***************************************************************************)
(* Claim C31: disposition and annex references of the question.            *)
(***************************************************************************)
\* the question names a disposition or an annex, no article, and a law
NamesPieceAndLaw(t) == t.art = NoNum /\ (t.disp # "" \/ t.anexo) /\ t.ley # NoLey

\* C31: when the question names a disposition or an annex together with a
\* law, a call that has gone past the question-reference strategy has made
\* the exact-reference lookup of that strategy.
C31_PieceReferenceLooksUp ==
  (/\ fin.fn = "solve_question"
   /\ NamesPieceAndLaw(fin.enunciado)
   /\ spc \in {"shortlist", "pdf_ley", "pdf_temas", "fallback"}) =>
     \E i \in 1..Len(trace) : trace[i].strategy = "q_ref"

(***************************************************************************)
(* The quote chooser and the overlap test of the quote matcher             *)
(* (app/verify/quote_matcher.py: find_best_quote, option_overlap_support). *)
(* The texts are lower case, so that w.lower() changes nothing.            *)
(***************************************************************************)
\* length of the contexts given to find_best_quote
MaxCtx == 7
\* length of the texts given to option_overlap_support
MaxOpt == 5
\* \w{4,}: the least length of a word that counts
MinWord == 4
\* min_ratio=0.08, in hundredths
MinRatioPct == 8
\* [\.\;\:]: the characters that end a sentence
Stops == {".", ";", ":"}
QuoteChars == {"a", ".", " "}
WordChars == {"a", " "}
Contexts == UNION {[1..n -> QuoteChars] : n \in 0..MaxCtx}
WordTexts == UNION {[1..n -> WordChars] : n \in 0..MaxOpt}
\* the queries: none, or one word of four or five letters
Queries == {q \in WordTexts : Len(q) \in {0, 4, 5} /\ \A i \in 1..Len(q) : q[i] = "a"}
MinLens == {1, 6, 120}
\* the value None
NoQuote == <<"None">>

\* \w
IsWordChar(ch) == ch \in Letters

RECURSIVE SplitSentences(_, _)
\* re.split(r'(?<=[\.\;\:])\s+', s): s is cut at every run of whitespace that
\* follows a stop; i is the position under the scan
SplitSentences(s, i) ==
  IF i > Len(s) THEN <<s>>
  ELSE IF IsSpace(s[i]) /\ i > 1 /\ s[i - 1] \in Stops
       THEN <<SubSeq(s, 1, i - 1)>> \o SplitSentences(LStrip(SubSeq(s, i, Len(s))), 1)
       ELSE SplitSentences(s, i + 1)

\* set(re.findall(r'\w{4,}', s)): the maximal runs of word characters of
\* length MinWord or more
Words(s) ==
  {SubSeq(s, p[1], p[2]) :
     p \in {p \in (1..Len(s)) \X (1..Len(s)) :
              /\ p[2] - p[1] + 1 >= MinWord
              /\ \A k \in p[1]..p[2] : IsWordChar(s[k])
              /\ (p[1] = 1 \/ ~IsWordChar(s[p[1] - 1]))
              /\ (p[2] = Len(s) \/ ~IsWordChar(s[p[2] + 1]))}}

\* max(sentences, key=len): the first of the longest
Longest(ss) ==
  ss[CHOOSE i \in 1..Len(ss) :
       /\ \A j \in 1..Len(ss) : Len(ss[j]) <= Len(ss[i])
       /\ \A j \in 1..(i - 1) : Len(ss[j]) < Len(ss[i])]

RECURSIVE BestLoop(_, _, _, _, _)
\* the for loop of find_best_quote.  j = len(key & sw) / (len(key) or 1) has
\* the same positive divisor for every sentence, so the scores are compared
\* by their numerators
BestLoop(sentences, key, minLen, best, bestScore) ==
  IF sentences = <<>> THEN best
  ELSE LET s == Head(sentences)
           sw == Words(s)
           j == Cardinality(key \cap sw)
       IN  IF Len(s) < minLen \/ sw = {}
           THEN BestLoop(Tail(sentences), key, minLen, best, bestScore)
           ELSE IF j > bestScore
                THEN BestLoop(Tail(sentences), key, minLen, s, j)
                ELSE BestLoop(Tail(sentences), key, minLen, best, bestScore)

\* find_best_quote
FindBestQuote(context, query, minLen) ==
  LET ctx == Canonical(context)
      sentences == SplitSentences(ctx, 1)
      best == BestLoop(sentences, Words(query), minLen, NoQuote, 0)
  IN  IF ctx = <<>> THEN NoQuote
      ELSE IF best = NoQuote /\ sentences # <<>> THEN Longest(sentences)
      ELSE best

\* option_overlap_support
OptionOverlapSupport(quote, optionText, pct) ==
  LET q == Words(quote)
      o == Words(optionText)
  IN  IF quote = <<>> \/ optionText = <<>> THEN FALSE
      ELSE IF o = {} THEN TRUE
      ELSE Cardinality(q \cap o) * 100 >= pct * Cardinality(o)

InitQuote ==
  /\ IngestStart /\ SolverIdle /\ OthersIdle
  /\ \/ \E c \in Contexts, q \in Queries, m \in MinLens :
          fin = [fn |-> "find_best_quote", context |-> c, query |-> q, min_len |-> m]
     \/ \E q \in WordTexts, o \in WordTexts, pct \in {MinRatioPct, 100} :
          fin = [fn |-> "option_overlap_support", quote |-> q, option |-> o,
                 min_ratio |-> pct]
  /\ fout = NotReturned

CallFindBestQuote ==
  /\ fin.fn = "find_best_quote"
  /\ ~fout.done
  /\ fout' = [done |-> TRUE,
              quote |-> FindBestQuote(fin.context, fin.query, fin.min_len)]
  /\ UNCHANGED <<nonFunVars, fin>>

CallOptionOverlapSupport ==
  /\ fin.fn = "option_overlap_support"
  /\ ~fout.done
  /\ fout' = [done |-> TRUE,
              ok |-> OptionOverlapSupport(fin.quote, fin.option, fin.min_ratio)]
  /\ UNCHANGED <<nonFunVars, fin>>

QuoteNext == CallFindBestQuote \/ CallOptionOverlapSupport
SpecQuote == InitQuote /\ [][QuoteNext]_vars

\* C32: for a context that is not the empty string, whitespace-only ones
\* included, find_best_quote returns neither None nor the empty string,
\* whatever the query and min_len are.
C32_BestQuoteNeverEmpty ==
  (fin.fn = "find_best_quote" /\ fout.done /\ fin.context # <<>>) =>
    (fout.quote # NoQuote /\ fout.quote # <<>>)

\* C33: option_overlap_support returns true for every option text without a
\* word of four or more characters, the empty option text included, whatever
\* the quote is; for the other option texts it returns true exactly when the
\* share of the option's words found in the quote is min_ratio or more.
C33_OverlapSupport ==
  (fin.fn = "option_overlap_support" /\ fout.done) =>
    IF Words(fin.option) = {} THEN fout.ok
    ELSE fout.ok <=>
           (Cardinality(Words(fin.quote) \cap Words(fin.option)) * 100
              >= fin.min_ratio * Cardinality(Words(fin.option)))

(***************************************************************************)
(* The fusion step of the retriever (app/retrieve/retriever.py:            *)
(* _bm25_order, _rrf_fuse, _apply_fusion).  A hit carries its place in the *)
(* dense order, whether its payload text has a token, and the score that   *)
(* BM25Okapi.get_scores gives it.  Indices are 1-based here.               *)
(***************************************************************************)
\* the scores of the lexical ranker
MaxScore == 2
Hit == [id : 1..MaxCands, tok : BOOLEAN, score : 0..MaxScore]
\* the hit lists of a search: a hit without tokens scores nothing
HitSeqs ==
  UNION {{h \in [1..n -> Hit] :
            \A i \in 1..n : h[i].id = i /\ (~h[i].tok => h[i].score = 0)} :
         n \in 0..MaxCands}
\* list(range(len(texts)))
DenseOrder(n) == [i \in 1..n |-> i]

\* sorted(range(len(scores)), key=lambda i: scores[i], reverse=True)
SortByScore(docs) == Rerank(docs)

\* _bm25_order with top_k=None, without the test on the query tokens
Bm25OrderNoQueryTest(useBm25, qtok, docs) ==
  IF ~useBm25 \/ docs = <<>> THEN DenseOrder(Len(docs))
  ELSE IF \A i \in 1..Len(docs) : ~docs[i].tok THEN DenseOrder(Len(docs))
  ELSE SortByScore(docs)

\* _bm25_order with top_k=None; qtok: the query has a token
Bm25Order(useBm25, qtok, docs) ==
  IF ~useBm25 \/ docs = <<>> THEN DenseOrder(Len(docs))
  ELSE IF \A i \in 1..Len(docs) : ~docs[i].tok THEN DenseOrder(Len(docs))
  ELSE IF ~qtok THEN DenseOrder(Len(docs))
  ELSE SortByScore(docs)

\* _rrf_fuse(rankings, k=RRF_K, top_k): topK = 0 stands for None
RrfFuseTop(rankings, topK) ==
  LET n == Len(Head(rankings))
      fused == SortByRrf(AggKeys(rankings), rankings, n)
  IN  IF topK > 0 THEN SubSeq(fused, 1, Min(topK, Len(fused))) ELSE fused

\* _apply_fusion
ApplyFusion(useBm25, fuseTopK, qtok, hits) ==
  LET dense_idx == DenseOrder(Len(hits))
      bm25_idx == Bm25Order(useBm25, qtok, hits)
      fused_idx == RrfFuseTop(<<dense_idx, bm25_idx>>, fuseTopK)
  IN  IF ~useBm25 \/ hits = <<>> THEN hits
      ELSE IF bm25_idx = <<>> THEN hits
      ELSE [i \in 1..Len(fused_idx) |-> hits[fused_idx[i]]]

InitApplyFusion ==
  /\ IngestStart /\ SolverIdle /\ OthersIdle
  /\ \E hits \in HitSeqs, useBm25 \in BOOLEAN, qtok \in BOOLEAN, topK \in 0..2 :
       fin = [fn |-> "apply_fusion", hits |-> hits, USE_BM25 |-> useBm25,
              qtok |-> qtok, FUSE_TOPK |-> topK]
  /\ fout = NotReturned

CallApplyFusion ==
  /\ fin.fn = "apply_fusion"
  /\ ~fout.done
  /\ fout' = [done |-> TRUE,
              hits |-> ApplyFusion(fin.USE_BM25, fin.FUSE_TOPK, fin.qtok, fin.hits)]
  /\ UNCHANGED <<nonFunVars, fin>>

SpecApplyFusion == InitApplyFusion /\ [][CallApplyFusion]_vars

\* the elements of a sequence
Elems(s) == {s[i] : i \in 1..Len(s)}

\* C34: with FUSE_TOPK = 0 the hits returned by _apply_fusion are a
\* permutation of the hits given; and when the lexical ranking is off, the
\* query has no token or no hit has a token, they are in the dense order given.
C34_FusionPermutes ==
  (fin.fn = "apply_fusion" /\ fout.done /\ fin.FUSE_TOPK = 0) =>
    /\ Len(fout.hits) = Len(fin.hits)
    /\ Elems(fout.hits) = Elems(fin.hits)
    /\ (~fin.USE_BM25 \/ ~fin.qtok \/ \A i \in 1..Len(fin.hits) : ~fin.hits[i].tok)
         => fout.hits = fin.hits

\* a call with FUSE_TOPK = 0 in which the lexical ranking changed the order
C34_Witness ==
  /\ fin.fn = "apply_fusion" /\ fout.done /\ fin.FUSE_TOPK = 0
  /\ fin.USE_BM25 /\ fin.qtok
  /\ Len(fin.hits) = MaxCands
  /\ fout.hits # fin.hits

(***************************************************************************)
(* The chunker of the PDF ingest (app/ingest/pipeline.py: _chunk_text).    *)
(* The while loop is taken one iteration at a time; positions are 0-based  *)
(* as in the code.  fout holds the locals of the call.                     *)
(***************************************************************************)
\* length of the texts given to the chunker
MaxChunkText == 6
\* the values of target_chars (1 or more)
MaxTarget == 4
\* the values of overlap (0 or more)
MaxOverlap == 2
\* (j-i)<1500: the least window in which a sentence end is looked for, at the
\* scale of the texts above
MinSplit == 3
ChunkTexts == UNION {[1..n -> QuoteChars] : n \in 0..MaxChunkText}

\* text.rfind('. ', i, j): the last position in [i, j - 2] at which '. '
\* starts, -1 if there is none
RFind(text, i, j) ==
  LET at == {p \in i..(j - 2) : text[p + 1] = "." /\ text[p + 2] = " "}
  IN  IF at = {} THEN -1 ELSE CHOOSE p \in at : \A o \in at : o <= p

\* i = k - overlap
NextStartOverlapped(k, overlap) == k - overlap
\* i = max(k - overlap, k)
NextStart(k, overlap) == Max(k - overlap, k)

InitChunk ==
  /\ IngestStart /\ SolverIdle /\ OthersIdle
  /\ \E t \in ChunkTexts, target \in 1..MaxTarget, overlap \in 0..MaxOverlap :
       fin = [fn |-> "chunk_text", text |-> t, target_chars |-> target,
              overlap |-> overlap]
  /\ fout = NotReturned

\* lines 29-32: the text is normalised; an empty one returns []
ChunkEnter ==
  /\ fin.fn = "chunk_text"
  /\ fout = NotReturned
  /\ LET text == NormalizeSpaces(fin.text)
     IN  fout' = [done |-> text = <<>>, text |-> text, i |-> 0, cuts |-> <<>>,
                  chunks |-> <<>>]
  /\ UNCHANGED <<nonFunVars, fin>>

Chunking == fin.fn = "chunk_text" /\ fout # NotReturned /\ ~fout.done

\* one iteration of the while loop
ChunkIterate ==
  /\ Chunking
  /\ fout.i < Len(fout.text)
  /\ LET n == Len(fout.text)
         i == fout.i
         j == Min(i + fin.target_chars, n)
         found == RFind(fout.text, i, j)
         atEnd == found = -1 \/ (j - i) < MinSplit
         k == IF atEnd THEN j ELSE found + 1
         chunk == Strip(Slice(fout.text, i, k))
     IN  fout' = [fout EXCEPT
                    !.cuts = Append(@, [i |-> i, k |-> k, stop |-> ~atEnd]),
                    !.chunks = IF chunk # <<>> THEN Append(@, chunk) ELSE @,
                    !.i = NextStart(k, fin.overlap)]
  /\ UNCHANGED <<nonFunVars, fin>>

\* the loop ends: return chunks
ChunkReturn ==
  /\ Chunking
  /\ fout.i >= Len(fout.text)
  /\ fout' = [fout EXCEPT !.done = TRUE]
  /\ UNCHANGED <<nonFunVars, fin>>

ChunkNext == ChunkEnter \/ ChunkIterate \/ ChunkReturn
SpecChunk == InitChunk /\ [][ChunkNext]_vars
\* the call runs on: the loop is sequential code of the ingest
SpecChunkFair == SpecChunk /\ WF_vars(ChunkNext)

\* C35: every cut after the first starts `overlap` characters before the
\* position at which the previous cut ended.
C35_ChunksOverlap ==
  (fin.fn = "chunk_text" /\ fout # NotReturned) =>
    \A c \in 2..Len(fout.cuts) : fout.cuts[c].i = fout.cuts[c - 1].k - fin.overlap

\* the cut ranges [i, k) follow one another from 0 to the end of the text
CutsPartition ==
  /\ \A c \in 1..Len(fout.cuts) : fout.cuts[c].i < fout.cuts[c].k
  /\ fout.cuts # <<>> =>
       /\ fout.cuts[1].i = 0
       /\ fout.cuts[Len(fout.cuts)].k = Len(fout.text)
  /\ fout.cuts = <<>> => fout.text = <<>>
  /\ \A c \in 2..Len(fout.cuts) : fout.cuts[c].i = fout.cuts[c - 1].k

\* C39: for target_chars >= 1 and overlap >= 0 the call returns, the start
\* position grows in every iteration, and the cut ranges [i, k) partition the
\* whitespace-normalised text.
C39_ChunkTerminatesAndPartitions ==
  /\ [][(Chunking /\ ~fout'.done) => fout'.i > fout.i]_vars
  /\ <>(fin.fn = "chunk_text" /\ fout # NotReturned /\ fout.done)
  /\ []((fin.fn = "chunk_text" /\ fout # NotReturned /\ fout.done) => CutsPartition)

\* a call that returned after cutting at a sentence end and again after it,
\* with an overlap asked for
C39_Witness ==
  /\ fin.fn = "chunk_text" /\ fout # NotReturned /\ fout.done
  /\ fin.overlap > 0
  /\ Len(fout.cuts) >= 2
  /\ \E c \in 1..Len(fout.cuts) : fout.cuts[c].stop

\* C36: with STRICT_LAW_GUARD on and an expected law (the option's, else the
\* question's), every result returned with a quote comes from a payload of
\* the expected law, whichever strategy produced it.
C36_GroundedResultOfExpectedLaw ==
  (cfg.lawGuard /\ ExpectedLey # NoLey /\ spc = "returned" /\ result.tiene_cita) =>
    result.ley = ExpectedLey

\* C37: the manifest a run saves records the current snapshot of a unit only
\* if the run ingested it: a law that changed and that the run left out (it
\* loaded no documents of it and made no collection for it), and a changed
\* PDF directory in a run with
\* include_pdf_temas=false, still differ from the saved manifest, so that the
\* next run that is not forced finds them changed.
C37_ManifestRecordsOnlyIngested ==
  [][(ipc = "next" /\ ipc' = "idle") =>
       /\ \A l \in Laws :
            (/\ manifest.art[l] # run.snapArt[l]
             /\ l \notin run.failed
             /\ Physical(ArtBase(l), run.version) \notin collections)
              => manifest'.art[l] # run.snapArt[l]
       /\ (manifest.pdf # run.snapPdf /\ ~run.includePdf)
            => manifest'.pdf # run.snapPdf]_vars

(***************************************************************************)
(* The file watcher (app/cli/watch.py).  The observer hands the events to  *)
(* Handler.on_any_event one after the other, in its own thread; the        *)
(* reindex runs inside the handler.  Time is in seconds.                   *)
(***************************************************************************)
\* the time at which the model stops the clock
MaxTime == 6
\* events the observer delivers
MaxEvents == 3
\* Debounce(2.0)
DebounceSecs == 2
\* what an event is about: a .txt file, a .pdf file, another file, a directory
EventKinds == {"txt", "pdf", "other", "dir"}
Relevant(e) == e.kind \in {"txt", "pdf"}

\* the watcher has started: ts = 0, and time.time() is far more than secs
InitWatch ==
  /\ IngestStart /\ SolverIdle /\ FunIdle /\ ServeIdle /\ BatchIdle
  /\ LotIdle /\ EnvIdle /\ CacheIdle
  /\ watch = [NoWatch EXCEPT !.pc = "idle", !.now = DebounceSecs]

\* a second passes
WatchTick ==
  /\ watch.pc # "off"
  /\ watch.now < MaxTime
  /\ watch' = [watch EXCEPT !.now = @ + 1]
  /\ UNCHANGED nonWatchVars

\* the file system reports an event; the observer queues it
EventArrives(kind) ==
  /\ watch.pc # "off"
  /\ Len(watch.evs) < MaxEvents
  /\ watch' = [watch EXCEPT !.evs = Append(@, [t |-> watch.now, kind |-> kind])]
  /\ UNCHANGED nonWatchVars

\* the event on_any_event is called with next
NextEvent == watch.evs[watch.handled + 1]

\* on_any_event returns at once: a directory, or neither .txt nor .pdf
IgnoreEvent ==
  /\ watch.pc = "idle"
  /\ watch.handled < Len(watch.evs)
  /\ ~Relevant(NextEvent)
  /\ watch' = [watch EXCEPT !.handled = @ + 1]
  /\ UNCHANGED nonWatchVars

\* Debounce.ping
Ping(now, ts) == now - ts >= DebounceSecs

\* on_any_event for a .txt or .pdf event: ping sets ts = now either way; when
\* it returns True reindex_main(["--all"]) starts, else the handler returns
HandleEvent ==
  /\ watch.pc = "idle"
  /\ watch.handled < Len(watch.evs)
  /\ Relevant(NextEvent)
  /\ watch' = [watch EXCEPT
       !.handled = @ + 1,
       !.ts = watch.now,
       !.pc = IF Ping(watch.now, watch.ts) THEN "reindex" ELSE "idle",
       !.starts = IF Ping(watch.now, watch.ts) THEN @ \cup {watch.now} ELSE @]
  /\ UNCHANGED nonWatchVars

\* reindex_main returns, exits (SystemExit) or raises: the handler returns
ReindexEnds ==
  /\ watch.pc = "reindex"
  /\ watch' = [watch EXCEPT !.pc = "idle"]
  /\ UNCHANGED nonWatchVars

WatchNext ==
  \/ WatchTick
  \/ \E kind \in EventKinds : EventArrives(kind)
  \/ IgnoreEvent
  \/ HandleEvent
  \/ ReindexEnds

SpecWatch == InitWatch /\ [][WatchNext]_vars
\* the observer thread goes on: a queued event is handled, a reindex ends
SpecWatchFair ==
  SpecWatch /\ WF_vars(IgnoreEvent) /\ WF_vars(HandleEvent) /\ WF_vars(ReindexEnds)

\* C38: every .txt or .pdf event the watcher receives is followed, sooner or
\* later, by a reindex run that starts at or after the time of the event.
C38_EveryChangeReindexed ==
  \A n \in 1..MaxEvents :
    (Len(watch.evs) >= n /\ Relevant(watch.evs[n]))
      ~> (Len(watch.evs) >= n /\ \E r \in watch.starts : r >= watch.evs[n].t)

(***************************************************************************)
(* The validation report (scripts/validation/advanced_validator.py:        *)
(* generate_comprehensive_report).  all_results maps the validations that  *)
(* ran to their overall_status; scores are in hundredths.                  *)
(***************************************************************************)
Components == {"config", "system", "embeddings", "legal"}
\* the overall_status the run_* methods give
Statuses == {"pass", "warning", "fail"}
\* the validations that report an overall_score
Scored == {"system", "embeddings", "legal"}
\* an overall_score that gives the status: >= 0.7, >= 0.5, below
ScoreOf(status) ==
  CASE status = "pass" -> 80 [] status = "warning" -> 60 [] status = "fail" -> 40
AllResults == UNION {[K -> Statuses] : K \in SUBSET Components}

\* a variant of the status computation that looks for a warning before it
\* looks for a failure
OverallStatusWarningFirst(r) ==
  IF \A k \in DOMAIN r : r[k] = "pass" THEN "pass"
  ELSE IF \E k \in DOMAIN r : r[k] = "warning" THEN "warning"
  ELSE "fail"

\* overall_status: all(...) pass, elif any(...) fail, else warning
OverallStatus(r) ==
  IF \A k \in DOMAIN r : r[k] = "pass" THEN "pass"
  ELSE IF \E k \in DOMAIN r : r[k] = "fail" THEN "fail"
  ELSE "warning"

\* sum(1 for r in self.all_results.values() if r['overall_status'] == status)
CountStatus(r, status) == Cardinality({k \in DOMAIN r : r[k] = status})

RECURSIVE SumScores(_, _)
SumScores(r, keys) ==
  IF keys = {} THEN 0
  ELSE LET k == CHOOSE x \in keys : TRUE
       IN  ScoreOf(r[k]) + SumScores(r, keys \ {k})

\* generate_comprehensive_report; average_score is given as the sum of the
\* scores and their number
GenerateComprehensiveReport(r) ==
  [overall_status |-> OverallStatus(r),
   average_score |-> [sum |-> SumScores(r, DOMAIN r \cap Scored),
                      n |-> Cardinality(DOMAIN r \cap Scored)],
   summary |-> [total_validations |-> Cardinality(DOMAIN r),
                passed |-> CountStatus(r, "pass"),
                warnings |-> CountStatus(r, "warning"),
                failures |-> CountStatus(r, "fail")]]

InitReport ==
  /\ IngestStart /\ SolverIdle /\ OthersIdle
  /\ \E r \in AllResults :
       fin = [fn |-> "generate_comprehensive_report", all_results |-> r]
  /\ fout = NotReturned

CallGenerateComprehensiveReport ==
  /\ fin.fn = "generate_comprehensive_report"
  /\ ~fout.done
  /\ fout' = [done |-> TRUE, report |-> GenerateComprehensiveReport(fin.all_results)]
  /\ UNCHANGED <<nonFunVars, fin>>

SpecReport == InitReport /\ [][CallGenerateComprehensiveReport]_vars

\* C40: the overall_status of the report is 'pass' exactly when every
\* validation passed, 'fail' exactly when at least one failed, 'warning'
\* otherwise; and passed + warnings + failures = total_validations.
C40_OverallStatusAndCounts ==
  (fin.fn = "generate_comprehensive_report" /\ fout.done) =>
    LET r == fin.all_results
        rep == fout.report
    IN  /\ rep.overall_status \in Statuses
        /\ rep.overall_status = "pass" <=> \A k \in DOMAIN r : r[k] = "pass"
        /\ rep.overall_status = "fail" <=> \E k \in DOMAIN r : r[k] = "fail"
        /\ rep.summary.passed + rep.summary.warnings + rep.summary.failures
             = rep.summary.total_validations

\* a report over the four validations with a pass, a warning and a failure
C40_Witness ==
  /\ fin.fn = "generate_comprehensive_report" /\ fout.done
  /\ DOMAIN fin.all_results = Components
  /\ fout.report.summary.passed >= 1
  /\ fout.report.summary.warnings >= 1
  /\ fout.report.summary.failures >= 1
  /\ fout.report.overall_status = "fail"

====
